---- MODULE Spec2Model ----
(***************************************************************************)
(* A model of gildas/go-errors: the Error value (code, id, text template,  *)
(* what, value, causes, stack), its copy-on-write builders, the chain walk *)
(* of errors.Is / errors.As / errors.Unwrap and the package-level          *)
(* wrappers.                                                               *)
(*                                                                         *)
(* Go values are modelled with their memory: an Error is a record whose    *)
(* Causes field is a slice header (arr, len, cap) into a heap of backing   *)
(* arrays, a *Error is an address into a heap of Error objects, and an     *)
(* error interface holds nil, an Error (by value), a *Error or a foreign   *)
(* error.  Strings that the code inspects are sequences: an ID is the      *)
(* sequence of its dot-separated segments, a Text the sequence of its      *)
(* literal pieces and "%" verbs.                                           *)
(***************************************************************************)
EXTENDS Integers, Sequences, FiniteSets, TLC

VARIABLES sentinel, arrs, objs, pool, last, callers

vars == <<sentinel, arrs, objs, pool, last, callers>>

(***************************************************************************)
(* Bounds of the model.                                                    *)
(***************************************************************************)
\* number of values the client program keeps in local variables
MaxPool == 2
\* number of errors passed to WrapErrors after the first one
MaxRest == 3
\* number of links a chain walk visits before it gives up
MaxWalk == 6
\* number of causes WithCause gives an Error, and of errors it is given at once
MaxCauses == 3
MaxGiven == 2
\* number of backing arrays the heap holds before WithCause is no longer
\* called
MaxArrays == 2
\* number of goroutines that share the sentinels
NumCallers == 2
\* the collectors of a client and the errors one collector holds
MaxMulti == 1
MaxErrors == 3
\* the errors a client of the sentinels holds at once
MaxHeld == 1
\* the errors a client that derives errors from one Error holds
MaxDerived == 3

(***************************************************************************)
(* Program constants.                                                      *)
(***************************************************************************)
StatusBadRequest == 400
StatusNotFound == 404
StatusInternalServerError == 500

(***************************************************************************)
(* Values.                                                                 *)
(***************************************************************************)
\* the nil error interface
Nil == [kind |-> "nil"]

\* the nil interface{} of Error.Value, and a boxed value
NilValue == <<>>
Box(v) == <<v>>

\* the nil slice of Error.Causes
NilSlice == [arr |-> 0, len |-> 0, cap |-> 0]

\* the empty StackTrace
NoStack == <<>>

\* Error{}: the zero value
ZeroError ==
  [kind |-> "Error", Code |-> 0, ID |-> <<>>, Text |-> <<>>, What |-> "",
   Value |-> NilValue, Causes |-> NilSlice, Stack |-> NoStack]

NewSentinel(code, id, message) ==
  [ZeroError EXCEPT !.Code = code, !.ID = id, !.Text = message]

ArgumentMissing ==
  NewSentinel(StatusBadRequest, <<"error", "argument", "missing">>,
              <<"Argument ", "%s", " is missing">>)

NotFound ==
  NewSentinel(StatusNotFound, <<"error", "notfound">>,
              <<"%s", " ", "%s", " Not Found">>)

InvalidType ==
  NewSentinel(StatusBadRequest, <<"error", "type", "invalid">>,
              <<"Invalid Type ", "%s", ", expected: ", "%s">>)

JSONMarshalError ==
  NewSentinel(StatusBadRequest, <<"error", "json", "marshal">>,
              <<"JSON failed to marshal data">>)

JSONUnmarshalError ==
  NewSentinel(StatusBadRequest, <<"error", "json", "unmarshal">>,
              <<"JSON failed to unmarshal data">>)

\* the package-level sentinel variables the model works on
SentinelNames == {"ArgumentMissing", "NotFound"}

SentinelInit ==
  [n \in SentinelNames |->
     IF n = "ArgumentMissing" THEN ArgumentMissing ELSE NotFound]

\* a *Error
Ptr(a) == [kind |-> "ptr", addr |-> a]

\* foreign errors: a stdlib errors.New / fmt.Errorf value (*errorString) and a
\* *url.Error, which has an Unwrap method giving its Err field
StdError(msg) ==
  [kind |-> "foreign", type |-> "*errors.errorString", msg |-> msg, inner |-> Nil]

URLError(msg, inner) ==
  [kind |-> "foreign", type |-> "*url.Error", msg |-> msg, inner |-> inner]

Boom == StdError(<<"boom">>)

\* a foreign error whose type is not a pointer type: a syscall.Errno
Errno(msg) ==
  [kind |-> "foreign", type |-> "syscall.Errno", msg |-> msg, inner |-> Nil]

\* the errors of encoding/json
JSONError(type, msg, inner) ==
  [kind |-> "foreign", type |-> type, msg |-> msg, inner |-> inner]

\* values of Error.Value other than strings: the value as fmt prints it and
\* its Go type
IntValue(digits) == <<digits, "int64">>
FloatValue(digits) == <<digits, "float64">>
ChanValue == <<"0xc000012345", "chan int">>

IsError(x) == x.kind = "Error"
IsPtr(x) == x.kind = "ptr"
IsForeign(x) == x.kind = "foreign"

(***************************************************************************)
(* Memory: mem.arrs are the backing arrays of the Causes slices, mem.objs  *)
(* the Error objects that *Error values point to.                          *)
(***************************************************************************)
EmptyMem == [arrs |-> <<>>, objs |-> <<>>]

\* the elements of a slice
Elems(mem, s) ==
  IF s.len = 0 THEN <<>> ELSE SubSeq(mem.arrs[s.arr], 1, s.len)

\* the capacity Go's append gives a slice that must grow
GrowCap(oldcap, needed) ==
  IF needed > 2 * oldcap THEN needed ELSE 2 * oldcap

\* append(s, x): in place when the capacity allows, in a new array otherwise
AppendOne(mem, s, x) ==
  IF s.len + 1 <= s.cap
  THEN [slice |-> [s EXCEPT !.len = s.len + 1],
        mem   |-> [mem EXCEPT !.arrs[s.arr][s.len + 1] = x]]
  ELSE LET newcap == GrowCap(s.cap, s.len + 1)
           fresh  == [i \in 1..newcap |->
                        IF i <= s.len THEN mem.arrs[s.arr][i]
                        ELSE IF i = s.len + 1 THEN x ELSE Nil]
       IN [slice |-> [arr |-> Len(mem.arrs) + 1, len |-> s.len + 1, cap |-> newcap],
           mem   |-> [mem EXCEPT !.arrs = Append(mem.arrs, fresh)]]

\* the Error a link of kind Error or ptr denotes
Deref(mem, x) == IF IsPtr(x) THEN mem.objs[x.addr] ELSE x

(***************************************************************************)
(* Stack capture.                                                          *)
(***************************************************************************)
\* the call sites of the client program, one per operation
Site ==
  [With |-> 1, Wrap |-> 2, WithStack |-> 3, PkgNew |-> 4, PkgWithStack |-> 5,
   PkgWrap |-> 6, WrapErrors |-> 7, MarshalJSON |-> 8, UnmarshalJSON |-> 9,
   AsError |-> 10, MultiAsError |-> 11, FromHTTPStatusCode |-> 12,
   Errorf |-> 13]

\* StackTrace.Initialize: the trace becomes the callers of the current call
Initialize(st, site) == <<site>>

(***************************************************************************)
(* Methods of Error.  A method with a value receiver works on a copy of    *)
(* the value it is called on: each operator gives the value returned       *)
(* (ret), the value the caller's variable holds after the call (recv) and  *)
(* the memory after the call (mem).                                        *)
(***************************************************************************)
\* the dynamic type of a non-nil error
DynType(x) ==
  IF IsError(x) THEN "Error" ELSE IF IsPtr(x) THEN "*Error" ELSE x.type

\* a target of errors.As: a non-nil pointer to a variable of type elem
\* holding val
NilPtr == Ptr(0)
Target(elem, val) == [elem |-> elem, val |-> val]

\* Error.Clone
Clone(mem, e) ==
  LET final == e
  IN [ret  |-> Ptr(Len(mem.objs) + 1),
      recv |-> e,
      mem  |-> [mem EXCEPT !.objs = Append(mem.objs, final)]]

\* Error.GetID
GetID(e) == e.ID

\* Error.Is that takes every Error target for a match
ErrorIsAny(e, target) == IsError(target)

\* Error.Is without the wildcard: the IDs must be equal
ErrorIsStrict(e, target) ==
  IF IsError(target) THEN e.ID = target.ID ELSE FALSE

\* Error.Is
ErrorIs(e, target) ==
  IF IsError(target)
  THEN IF Len(target.ID) = 0 THEN TRUE ELSE e.ID = target.ID
  ELSE FALSE

\* Error.As that does not look at the ID of the target
ErrorAsAnyID(mem, e, target) ==
  IF target.elem = "*Error"
  THEN [ok  |-> TRUE,
        val |-> Ptr(Len(mem.objs) + 1),
        mem |-> [mem EXCEPT !.objs = Append(mem.objs, e)]]
  ELSE [ok |-> FALSE, val |-> target.val, mem |-> mem]

\* Error.As: ok, the value of the target variable after the call, the memory
ErrorAs(mem, e, target) ==
  IF target.elem = "*Error"
  THEN IF target.val # NilPtr /\ GetID(mem.objs[target.val.addr]) # e.ID
       THEN [ok |-> FALSE, val |-> target.val, mem |-> mem]
       ELSE [ok  |-> TRUE,
             val |-> Ptr(Len(mem.objs) + 1),
             mem |-> [mem EXCEPT !.objs = Append(mem.objs, e)]]
  ELSE [ok |-> FALSE, val |-> target.val, mem |-> mem]

\* Error.Wrap without its nil check
ErrorWrapNoNilCheck(mem, e, err, site) ==
  LET ap    == AppendOne(mem, e.Causes, err)
      final == [e EXCEPT !.Causes = ap.slice,
                         !.Stack = Initialize(e.Stack, site)]
  IN [ret |-> final, recv |-> e, mem |-> ap.mem]

\* Error.Wrap that sets the cause on the receiver instead of the copy, so
\* that the value returned has no new cause
ErrorWrapWrongVar(mem, e, err, site) ==
  IF err = Nil
  THEN [ret |-> Nil, recv |-> e, mem |-> mem]
  ELSE LET final == [e EXCEPT !.Stack = Initialize(e.Stack, site)]
       IN [ret |-> final, recv |-> e, mem |-> mem]

\* Error.Wrap that replaces the causes by the one given
ErrorWrapReplace(mem, e, err, site) ==
  IF err = Nil
  THEN [ret |-> Nil, recv |-> e, mem |-> mem]
  ELSE LET ap    == AppendOne(mem, NilSlice, err)
           final == [e EXCEPT !.Causes = ap.slice,
                              !.Stack = Initialize(e.Stack, site)]
       IN [ret |-> final, recv |-> e, mem |-> ap.mem]

\* Error.Wrap
ErrorWrap(mem, e, err, site) ==
  IF err = Nil
  THEN [ret |-> Nil, recv |-> e, mem |-> mem]
  ELSE LET ap    == AppendOne(mem, e.Causes, err)
           final == [e EXCEPT !.Causes = ap.slice,
                              !.Stack = Initialize(e.Stack, site)]
       IN [ret |-> final, recv |-> e, mem |-> ap.mem]

\* append(s, xs...): in place when the capacity allows, in a new array
\* otherwise
AppendAll(mem, s, xs) ==
  IF Len(xs) = 0 THEN [slice |-> s, mem |-> mem]
  ELSE IF s.len + Len(xs) <= s.cap
  THEN [slice |-> [s EXCEPT !.len = s.len + Len(xs)],
        mem   |-> [mem EXCEPT !.arrs[s.arr] =
                     [i \in 1..s.cap |->
                        IF i > s.len /\ i <= s.len + Len(xs) THEN xs[i - s.len]
                        ELSE mem.arrs[s.arr][i]]]]
  ELSE LET newcap == GrowCap(s.cap, s.len + Len(xs))
           fresh  == [i \in 1..newcap |->
                        IF i <= s.len THEN mem.arrs[s.arr][i]
                        ELSE IF i <= s.len + Len(xs) THEN xs[i - s.len] ELSE Nil]
       IN [slice |-> [arr |-> Len(mem.arrs) + 1, len |-> s.len + Len(xs),
                      cap |-> newcap],
           mem   |-> [mem EXCEPT !.arrs = Append(mem.arrs, fresh)]]

\* WithCause that leaves out the nil errors
WithCauseNoNil(mem, e, errs) ==
  LET ap == AppendAll(mem, e.Causes, SelectSeq(errs, LAMBDA x : x # Nil))
  IN [ret |-> Nil, recv |-> [e EXCEPT !.Causes = ap.slice], mem |-> ap.mem]

\* WithCause that works on a copy of its receiver
WithCauseOnCopy(mem, e, errs) ==
  LET ap == AppendAll(mem, e.Causes, errs)
  IN [ret |-> Nil, recv |-> e, mem |-> ap.mem]

\* Error.WithCause: its receiver is a *Error, recv is the Error it points to
\* after the call
WithCause(mem, e, errs) ==
  LET ap == AppendAll(mem, e.Causes, errs)
  IN [ret |-> Nil, recv |-> [e EXCEPT !.Causes = ap.slice], mem |-> ap.mem]

\* Error.HasCauses
HasCauses(e) == e.Causes.len > 0

\* Error.AsError
AsError(e) ==
  IF Len(e.ID) = 0 /\ Len(e.Text) = 0 /\ e.Causes.len = 0 THEN Nil ELSE e

\* Error.Unwrap
ErrorUnwrap(mem, e) ==
  IF e.Causes.len = 0 THEN Nil ELSE mem.arrs[e.Causes.arr][1]

\* Error.With that works on its receiver instead of a copy
WithInPlace(mem, e, what, values, site) ==
  LET final == [e EXCEPT !.What = what,
                         !.Value = IF Len(values) > 0 THEN values[1] ELSE e.Value,
                         !.Stack = Initialize(e.Stack, site)]
  IN [ret |-> final, recv |-> final, mem |-> mem]

\* Error.With
With(mem, e, what, values, site) ==
  LET final == [e EXCEPT !.What = what,
                         !.Value = IF Len(values) > 0 THEN values[1] ELSE e.Value,
                         !.Stack = Initialize(e.Stack, site)]
  IN [ret |-> final, recv |-> e, mem |-> mem]

\* Error.WithStack that captures the stack in its receiver
ErrorWithStackInPlace(mem, e, site) ==
  LET final == [e EXCEPT !.Stack = Initialize(e.Stack, site)]
  IN [ret |-> final, recv |-> final, mem |-> mem]

\* Error.WithStack
ErrorWithStack(mem, e, site) ==
  LET final == [e EXCEPT !.Stack = Initialize(e.Stack, site)]
  IN [ret |-> final, recv |-> e, mem |-> mem]

\* Error.WithoutStack
ErrorWithoutStack(mem, e) ==
  LET final == [e EXCEPT !.Stack = NoStack]
  IN [ret |-> final, recv |-> e, mem |-> mem]

\* what fmt prints for one verb of a Text: args are the operands left
IsVerb(piece) == piece \in {"%s", "%v"}

FormatVerb(verb, args) ==
  IF Len(args) = 0
  THEN IF verb = "%s" THEN "%!s(MISSING)" ELSE "%!v(MISSING)"
  ELSE IF args[1] = NilValue
  THEN IF verb = "%s" THEN "%!s(<nil>)" ELSE "<nil>"
  ELSE args[1][1]

\* fmt.Fprintf(&sb, text, args...) for a text whose verbs are %s and %v
RECURSIVE Sprintf(_, _)
Sprintf(text, args) ==
  IF Len(text) = 0 THEN <<>>
  ELSE IF IsVerb(text[1])
  THEN <<FormatVerb(text[1], args)>>
       \o Sprintf(Tail(text), IF Len(args) = 0 THEN args ELSE Tail(args))
  ELSE <<text[1]>> \o Sprintf(Tail(text), args)

\* strings.Count(text, "%")
CountVerbs(text) == Cardinality({i \in 1..Len(text) : IsVerb(text[i])})

\* Error.Error, and the Error method of a foreign error: the string as the
\* sequence of its pieces
RECURSIVE ErrorString(_, _, _)
RECURSIVE CausesString(_, _, _)
\* Error.Error that prefers the ID to the Text
ErrorStringIDFirst(mem, x, fuel) ==
  IF x = Nil THEN <<>>
  ELSE IF IsForeign(x) THEN x.msg
  ELSE LET e    == Deref(mem, x)
           head == IF Len(e.ID) > 0 THEN e.ID
                   ELSE IF Len(e.Text) > 0 THEN e.Text
                   ELSE <<"runtime error">>
       IN IF e.Causes.len > 0 /\ fuel > 0
          THEN head \o <<"\nCaused by:">>
                    \o CausesString(mem, Elems(mem, e.Causes), fuel - 1)
          ELSE head

ErrorString(mem, x, fuel) ==
  IF x = Nil THEN <<>>
  ELSE IF IsForeign(x) THEN x.msg
  ELSE LET e    == Deref(mem, x)
           head == IF CountVerbs(e.Text) = 0
                   THEN IF Len(e.Text) > 0 THEN e.Text
                        ELSE IF Len(e.ID) > 0 THEN e.ID
                        ELSE <<"runtime error">>
                   ELSE IF CountVerbs(e.Text) = 1
                   THEN Sprintf(e.Text, <<Box(e.What)>>)
                   ELSE Sprintf(e.Text, <<Box(e.What), e.Value>>)
       IN IF e.Causes.len > 0 /\ fuel > 0
          THEN head \o <<"\nCaused by:">>
                    \o CausesString(mem, Elems(mem, e.Causes), fuel - 1)
          ELSE head

CausesString(mem, causes, fuel) ==
  IF Len(causes) = 0 THEN <<>>
  ELSE <<"\n\t">> \o ErrorString(mem, causes[1], fuel)
                  \o CausesString(mem, Tail(causes), fuel)

\* cause.Error() on a nil cause is a call on a nil interface: it panics
RECURSIVE Panics(_, _, _)
Panics(mem, x, fuel) ==
  IF x = Nil THEN TRUE
  ELSE IF IsForeign(x) \/ fuel = 0 THEN FALSE
  ELSE LET causes == Elems(mem, Deref(mem, x).Causes)
       IN \E i \in 1..Len(causes) : Panics(mem, causes[i], fuel - 1)

Panic == <<"panic: runtime error: invalid memory address or nil pointer dereference">>

\* err.Error() as the caller sees it: the string, or the panic
ErrorOf(mem, err) ==
  IF Panics(mem, err, MaxWalk) THEN Panic ELSE ErrorString(mem, err, MaxWalk)

(***************************************************************************)
(* The chain walk of the standard errors package, which the package-level  *)
(* Is, As and Unwrap hand over to.                                         *)
(***************************************************************************)
\* Unwrap: the result of err's Unwrap method, nil when it has none
Unwrap(mem, err) ==
  IF err = Nil THEN Nil
  ELSE IF IsForeign(err) THEN err.inner
  ELSE ErrorUnwrap(mem, Deref(mem, err))

\* whether == is defined on values of target's type: Error holds a slice
Comparable(target) == ~IsError(target)

RECURSIVE IsWalk(_, _, _, _)
IsWalk(mem, err, target, fuel) ==
  IF err = Nil \/ fuel = 0 THEN FALSE
  ELSE IF Comparable(target) /\ err = target THEN TRUE
  ELSE IF ~IsForeign(err) /\ ErrorIs(Deref(mem, err), target) THEN TRUE
  ELSE IsWalk(mem, Unwrap(mem, err), target, fuel - 1)

\* Is
Is(mem, err, target) ==
  IF err = Nil \/ target = Nil THEN err = target
  ELSE IsWalk(mem, err, target, MaxWalk)

RECURSIVE AsWalk(_, _, _, _)
AsWalk(mem, err, target, fuel) ==
  IF err = Nil \/ fuel = 0
  THEN [ok |-> FALSE, val |-> target.val, mem |-> mem]
  ELSE IF DynType(err) = target.elem
  THEN [ok |-> TRUE, val |-> err, mem |-> mem]
  ELSE LET viaMethod == IF IsForeign(err)
                        THEN [ok |-> FALSE, val |-> target.val, mem |-> mem]
                        ELSE ErrorAs(mem, Deref(mem, err), target)
       IN IF viaMethod.ok THEN viaMethod
          ELSE AsWalk(mem, Unwrap(mem, err), target, fuel - 1)

\* As
As(mem, err, target) == AsWalk(mem, err, target, MaxWalk)

(***************************************************************************)
(* The package-level wrappers.                                             *)
(***************************************************************************)
\* Error{Code: 500, ID: "error.runtime", Text: message}
RuntimeErrorOf(message) ==
  NewSentinel(StatusInternalServerError, <<"error", "runtime">>, message)

\* New
New(mem, message, site) == ErrorWithStack(mem, RuntimeErrorOf(message), site)

\* Errorf
Errorf(mem, format, args, site) ==
  ErrorWithStack(mem, RuntimeErrorOf(Sprintf(format, args)), site)

\* WithStack
WithStack(mem, err, site) ==
  IF err = Nil THEN [ret |-> Nil, mem |-> mem]
  ELSE IF IsError(err)
  THEN IF Len(err.Stack) = 0
       THEN LET r == ErrorWithStack(mem, err, site) IN [ret |-> r.ret, mem |-> r.mem]
       ELSE [ret |-> err, mem |-> mem]
  ELSE LET r == ErrorWrap(mem, RuntimeErrorOf(<<>>), err, site)
       IN [ret |-> r.ret, mem |-> r.mem]

\* WithoutStack
WithoutStack(mem, err) ==
  IF err = Nil THEN [ret |-> Nil, mem |-> mem]
  ELSE IF IsError(err)
  THEN LET r == ErrorWithoutStack(mem, err) IN [ret |-> r.ret, mem |-> r.mem]
  ELSE [ret |-> err, mem |-> mem]

\* Wrap; Wrapf, WithMessage and WithMessagef have the same body, their
\* message being the formatted one
Wrap(mem, err, message, site) ==
  IF err = Nil THEN [ret |-> Nil, mem |-> mem]
  ELSE LET r == ErrorWrap(mem, RuntimeErrorOf(message), err, site)
       IN [ret |-> r.ret, mem |-> r.mem]

Wrapf(mem, err, message, site) ==
  IF err = Nil THEN [ret |-> Nil, mem |-> mem]
  ELSE LET r == ErrorWrap(mem, RuntimeErrorOf(message), err, site)
       IN [ret |-> r.ret, mem |-> r.mem]

WithMessage(mem, err, message, site) ==
  IF err = Nil THEN [ret |-> Nil, mem |-> mem]
  ELSE LET r == ErrorWrap(mem, RuntimeErrorOf(message), err, site)
       IN [ret |-> r.ret, mem |-> r.mem]

WithMessagef(mem, err, message, site) ==
  IF err = Nil THEN [ret |-> Nil, mem |-> mem]
  ELSE LET r == ErrorWrap(mem, RuntimeErrorOf(message), err, site)
       IN [ret |-> r.ret, mem |-> r.mem]

\* the container without the message of the error it stands for
ContainerNoText(mem, err) ==
  IF IsError(err) THEN err ELSE RuntimeErrorOf(<<>>)

\* WrapErrors, the container: err itself when it is an Error, else a runtime
\* Error whose Text is err's message
Container(mem, err) ==
  IF IsError(err) THEN err
  ELSE RuntimeErrorOf(ErrorString(mem, err, MaxWalk))

\* one error left, wrapped even when it is nil
WrapLastStrict(mem, container, err, site) ==
  LET r == ErrorWrap(mem, container, err, site)
  IN [ret |-> r.ret, mem |-> r.mem]

\* WrapErrors, one error left: it is wrapped unless it is nil
WrapLast(mem, container, err, site) ==
  IF err # Nil
  THEN LET r == ErrorWrap(mem, container, err, site)
       IN [ret |-> r.ret, mem |-> r.mem]
  ELSE [ret |-> container, mem |-> mem]

\* several errors left, a nil composition being skipped
WrapInnerSkipNil(mem, container, inner, site) ==
  IF inner = Nil THEN [ret |-> container, mem |-> mem]
  ELSE LET r == ErrorWrap(mem, container, inner, site)
       IN [ret |-> r.ret, mem |-> r.mem]

\* several errors left, the container being returned without them
WrapInnerDropped(mem, container, inner, site) ==
  [ret |-> container, mem |-> mem]

\* WrapErrors, several errors left: the container wraps what they compose
WrapInner(mem, container, inner, site) ==
  LET r == ErrorWrap(mem, container, inner, site)
  IN [ret |-> r.ret, mem |-> r.mem]

\* WrapErrors
RECURSIVE WrapErrors(_, _, _, _)
WrapErrors(mem, err, errors, site) ==
  IF err = Nil THEN [ret |-> Nil, mem |-> mem]
  ELSE IF Len(errors) = 0 THEN [ret |-> err, mem |-> mem]
  ELSE IF Len(errors) = 1
  THEN WrapLast(mem, Container(mem, err), errors[1], site)
  ELSE LET inner == WrapErrors(mem, errors[1], Tail(errors), site)
       IN WrapInner(inner.mem, Container(mem, err), inner.ret, site)

(***************************************************************************)
(* MultiError.  A MultiError is an object holding the list Errors; a       *)
(* *MultiError is an error that is neither an Error nor a *Error.          *)
(***************************************************************************)
\* &MultiError{}: the object and a pointer to the object at address a
EmptyMultiError == [kind |-> "MultiError", Errors |-> <<>>]
MultiPtr(a) == [kind |-> "foreign", type |-> "*errors.MultiError", addr |-> a]

\* a nil *MultiError
NilMulti == MultiPtr(0)

\* MultiError.IsEmpty
IsEmpty(mem, me) == me = NilMulti \/ Len(mem.objs[me.addr].Errors) = 0

\* MultiError.Append that stores every error it is given
MultiErrorAppendAny(mem, me, errs) ==
  [mem EXCEPT !.objs[me.addr].Errors = @ \o errs]

\* MultiError.Append
MultiErrorAppend(mem, me, errs) ==
  LET added == SelectSeq(errs, LAMBDA err : err # Nil)
  IN [mem EXCEPT !.objs[me.addr].Errors = @ \o added]

\* MultiError.AsError that gives the collector itself when it holds several
\* errors
MultiErrorAsErrorItself(mem, me, site) ==
  IF me = NilMulti \/ Len(mem.objs[me.addr].Errors) = 0
  THEN [ret |-> Nil, mem |-> mem]
  ELSE IF Len(mem.objs[me.addr].Errors) = 1
  THEN LET err == mem.objs[me.addr].Errors[1]
       IN IF IsPtr(err)
          THEN IF Len(Deref(mem, err).Stack) = 0
               THEN [ret |-> ErrorWithStack(mem, Deref(mem, err), site).ret, mem |-> mem]
               ELSE [ret |-> err, mem |-> mem]
          ELSE WithStack(mem, err, site)
  ELSE [ret |-> me, mem |-> mem]

\* MultiError.AsError
MultiErrorAsError(mem, me, site) ==
  IF me = NilMulti \/ Len(mem.objs[me.addr].Errors) = 0
  THEN [ret |-> Nil, mem |-> mem]
  ELSE IF Len(mem.objs[me.addr].Errors) = 1
  THEN LET err == mem.objs[me.addr].Errors[1]
       IN IF IsPtr(err)
          THEN IF Len(Deref(mem, err).Stack) = 0
               THEN [ret |-> ErrorWithStack(mem, Deref(mem, err), site).ret, mem |-> mem]
               ELSE [ret |-> err, mem |-> mem]
          ELSE WithStack(mem, err, site)
  ELSE WithStack(mem, me, site)

(***************************************************************************)
(* JSON.  A document is a string, a number (its literal), null, an array   *)
(* or an object (a function from the names of its members); a payload that *)
(* is not a JSON text at all is Malformed.                                 *)
(***************************************************************************)
\* a string of a document is the sequence of its pieces, as an ID and a Text
\* are; Pieces and Joined convert the strings the model keeps whole
JString(s) == [j |-> "string", v |-> <<s>>]
Pieces(str) == IF str = "" THEN <<>> ELSE <<str>>
Joined(s) == IF Len(s) = 0 THEN "" ELSE s[1]
JNumber(lit) == [j |-> "number", v |-> <<lit>>]
JArray(items) == [j |-> "array", v |-> <<items>>]
JObject(members) == [j |-> "object", v |-> <<members>>]
JNull == [j |-> "null", v |-> <<>>]
Malformed == [j |-> "malformed", v |-> <<>>]

NoMembers == [k \in {} |-> JNull]
Member(cond, name, doc) == IF cond THEN name :> doc ELSE NoMembers
Has(doc, name) == name \in DOMAIN doc.v[1]
Get(doc, name) == doc.v[1][name]

\* strconv: the decimal literal of an int, and the int of a literal
MaxCode == 599
Itoa(n) == ToString(n)
IsIntLiteral(lit) == \E n \in 0..MaxCode : ToString(n) = lit
Atoi(lit) == CHOOSE n \in 0..MaxCode : ToString(n) = lit

\* the float64 a number literal is decoded to, as json.Marshal prints it
Float64(lit) ==
  IF lit = "9007199254740993" THEN "9007199254740992" ELSE lit

\* reflect.TypeOf(cause).Elem() is defined on pointer types only
PointerTypes ==
  {"*errors.errorString", "*url.Error", "*json.SyntaxError",
   "*json.UnmarshalTypeError", "*json.UnsupportedTypeError",
   "*json.MarshalerError"}

\* causeType.String() as the segments added to the ID; nothing for the
\* errorString of package errors
ElemName(type) ==
  CASE type = "*errors.errorString"         -> <<>>
    [] type = "*url.Error"                  -> <<"url", "Error">>
    [] type = "*json.SyntaxError"           -> <<"json", "SyntaxError">>
    [] type = "*json.UnmarshalTypeError"    -> <<"json", "UnmarshalTypeError">>
    [] type = "*json.UnsupportedTypeError"  -> <<"json", "UnsupportedTypeError">>
    [] type = "*json.MarshalerError"        -> <<"json", "MarshalerError">>

\* MarshalJSON, the Error a cause that holds no Error is replaced by
NormalizedCause(mem, cause) ==
  [ZeroError EXCEPT !.Code = StatusInternalServerError,
                    !.ID = <<"error", "runtime">> \o ElemName(cause.type),
                    !.Text = ErrorString(mem, cause, MaxWalk)]

NotNil(x) == x # Nil

\* MarshalJSON, the loop over e.Causes: it panics on a cause that holds no
\* Error and whose type is not a pointer type
CausesToEncode(mem, e) ==
  LET raw   == SelectSeq(Elems(mem, e.Causes), NotNil)
      plain == {i \in 1..Len(raw) : ~Is(mem, raw[i], ZeroError)}
  IN [panic  |-> \E i \in plain : raw[i].type \notin PointerTypes,
      causes |-> [i \in 1..Len(raw) |->
                    IF i \in plain /\ raw[i].type \in PointerTypes
                    THEN NormalizedCause(mem, raw[i]) ELSE raw[i]]]

\* what json.Marshal can encode of the values of the model
Encodable(value) ==
  value = NilValue \/ Len(value) = 1 \/ value[2] \in {"int64", "float64"}

EncodeValue(value) ==
  IF Len(value) = 1 THEN JString(Pieces(value[1])) ELSE JNumber(value[1])

\* json.Marshal of an error: panic tells that it panics (or exhausts the
\* stack), depth > 0 that it fails on a Value, that many MarshalJSON calls
\* down, and data is the document otherwise
Encoded(panic, depth, data) == [panic |-> panic, depth |-> depth, data |-> data]

\* the payload without omitempty: every member is emitted
MembersNoOmit(e, nested) ==
  ("type" :> JString(Pieces("error")))
  @@ ("code" :> JNumber(Itoa(e.Code)))
  @@ ("id" :> JString(e.ID))
  @@ ("text" :> JString(e.Text))
  @@ ("what" :> JString(Pieces(e.What)))
  @@ ("value" :> IF e.Value = NilValue THEN JNull ELSE EncodeValue(e.Value))
  @@ ("cause" :> IF Len(nested) = 1 THEN nested[1] ELSE JNull)
  @@ ("causes" :> JArray(nested))

\* MarshalJSON, the payload: the members of the document of e, nested being
\* the documents of its causes
Members(e, nested) ==
  ("type" :> JString(Pieces("error")))
  @@ Member(e.Code # 0, "code", JNumber(Itoa(e.Code)))
  @@ Member(Len(e.ID) > 0, "id", JString(e.ID))
  @@ Member(Len(e.Text) > 0, "text", JString(e.Text))
  @@ Member(e.What # "", "what", JString(Pieces(e.What)))
  @@ Member(e.Value # NilValue, "value", EncodeValue(e.Value))
  @@ Member(Len(nested) = 1, "cause", IF Len(nested) = 1 THEN nested[1] ELSE JNull)
  @@ Member(Len(nested) > 1, "causes", JArray(nested))

\* the errors json.Marshal goes down to from x: the causes MarshalJSON puts
\* in the payload of an Error, the Err field of a *url.Error
Children(mem, x) ==
  IF IsForeign(x) THEN IF x.inner = Nil THEN <<>> ELSE <<x.inner>>
  ELSE CausesToEncode(mem, Deref(mem, x)).causes

\* the first of the nested results that is a panic or a failure, 0 if none
FirstBad(nested) ==
  LET bad == {i \in 1..Len(nested) : nested[i].panic \/ nested[i].depth > 0}
  IN IF bad = {} THEN 0 ELSE CHOOSE i \in bad : \A k \in bad : i <= k

\* a cause that is not an Error but holds one: json.Marshal encodes its own
\* fields
EncodeForeign(x, nested) ==
  IF FirstBad(nested) # 0 THEN nested[1]
  ELSE Encoded(FALSE, 0, JObject(
         Member(x.type = "*url.Error", "Op", JString(Pieces("Get")))
         @@ Member(x.type = "*url.Error", "URL", JString(Pieces("x")))
         @@ Member(x.type = "*url.Error", "Err",
                   IF Len(nested) = 1 THEN nested[1].data ELSE JNull)))

\* MarshalJSON of the Error e, nested being what json.Marshal gives for each
\* of its causes
EncodeError(mem, e, nested) ==
  IF CausesToEncode(mem, e).panic THEN Encoded(TRUE, 0, JNull)
  ELSE IF ~Encodable(e.Value) THEN Encoded(FALSE, 1, JNull)
  ELSE IF FirstBad(nested) # 0
  THEN IF nested[FirstBad(nested)].panic THEN Encoded(TRUE, 0, JNull)
       ELSE Encoded(FALSE, nested[FirstBad(nested)].depth + 1, JNull)
  ELSE Encoded(FALSE, 0,
               JObject(Members(e, [i \in 1..Len(nested) |-> nested[i].data])))

EncodeWith(mem, x, nested) ==
  IF IsForeign(x) THEN EncodeForeign(x, nested)
  ELSE EncodeError(mem, Deref(mem, x), nested)

\* json.Marshal of the error x; fuel is the depth left before the stack of
\* the goroutine is exhausted
RECURSIVE Encode(_, _, _)
Encode(mem, x, fuel) ==
  IF fuel = 0 THEN Encoded(TRUE, 0, JNull)
  ELSE EncodeWith(mem, x, [i \in 1..Len(Children(mem, x)) |->
                             Encode(mem, Children(mem, x)[i], fuel - 1)])

\* the error json.Marshal gives when it fails depth MarshalJSON calls down,
\* as each MarshalJSON on the way wraps it
RECURSIVE MarshalFailure(_, _, _)
MarshalFailure(mem, depth, site) ==
  IF depth = 1
  THEN ErrorWrap(mem, JSONMarshalError,
                 JSONError("*json.UnsupportedTypeError",
                           <<"json: unsupported type: chan int">>, Nil), site)
  ELSE LET inner == MarshalFailure(mem, depth - 1, site)
       IN ErrorWrap(inner.mem, JSONMarshalError,
                    JSONError("*json.MarshalerError",
                              <<"json: error calling MarshalJSON for type errors.Error: ">>
                                \o ErrorString(inner.mem, inner.ret, MaxWalk),
                              inner.ret), site)

\* Error.MarshalJSON: the data and the error returned, or the panic
MarshalJSON(mem, e, site) ==
  LET r == Encode(mem, e, MaxWalk)
  IN IF r.panic THEN [panic |-> TRUE, data |-> JNull, err |-> Nil, mem |-> mem]
     ELSE IF r.depth = 0
     THEN [panic |-> FALSE, data |-> r.data, err |-> Nil, mem |-> mem]
     ELSE LET f == MarshalFailure(mem, r.depth, site)
          IN [panic |-> FALSE, data |-> JNull, err |-> f.ret, mem |-> f.mem]

\* the errors json.Unmarshal gives: a payload that is no JSON text, and a
\* member whose JSON type the field cannot hold
SyntaxError ==
  JSONError("*json.SyntaxError",
            <<"invalid character 'x' looking for beginning of value">>, Nil)

TypeError(field) ==
  JSONError("*json.UnmarshalTypeError",
            <<"json: cannot unmarshal into Go struct field .", field>>, Nil)

\* the members of a payload, in the order the payloads of the model are
\* written in
Canonical == <<"type", "code", "id", "text", "what", "value", "cause", "causes">>

\* whether the member of the object is of a JSON type its field cannot hold
WrongKind(doc, name) ==
  /\ Has(doc, name)
  /\ Get(doc, name).j # "null"
  /\ CASE name \in {"type", "id", "text", "what"} -> Get(doc, name).j # "string"
       [] name = "code" -> \/ Get(doc, name).j # "number"
                           \/ ~IsIntLiteral(Get(doc, name).v[1])
       [] name = "causes" -> Get(doc, name).j # "array"
       [] OTHER -> FALSE

\* the Go value of a member decoded into an interface{}
DecodeValue(doc) ==
  CASE doc.j = "string" -> Box(Joined(doc.v[1]))
    [] doc.j = "number" -> FloatValue(Float64(doc.v[1]))
    [] doc.j = "null"   -> NilValue

\* the string, the int and the interface{} a member of the object gives its
\* field, the field keeping its zero value without the member
StringOf(doc, name, zero) ==
  IF Has(doc, name) /\ Get(doc, name).j = "string" THEN Get(doc, name).v[1] ELSE zero

IntOf(doc, name) ==
  IF Has(doc, name) /\ ~WrongKind(doc, name) /\ Get(doc, name).j = "number"
  THEN Atoi(Get(doc, name).v[1]) ELSE 0

ValueOf(doc, name) ==
  IF Has(doc, name) THEN DecodeValue(Get(doc, name)) ELSE NilValue

\* UnmarshalJSON that accepts every discriminator
TypeAccepted(type) == TRUE

\* UnmarshalJSON, the test of the discriminator
TypeExpected(type) == type = "error"

\* the InvalidType error that names the discriminator found as What
InvalidTypeSwapped(mem, type, site) ==
  With(mem, InvalidType, type, <<Box("error")>>, site).ret

\* UnmarshalJSON, the error for a payload of another type
InvalidTypeOf(mem, type, site) ==
  With(mem, InvalidType, "error", <<Box(type)>>, site).ret

Decoded(err, e, mem) == [err |-> err, e |-> e, mem |-> mem]

\* return JSONUnmarshalError.Wrap(err)
DecodeFailure(mem, err, site) ==
  LET w == ErrorWrap(mem, JSONUnmarshalError, err, site)
  IN Decoded(w.ret, ZeroError, w.mem)

\* make([]error, n) filled with the causes decoded
MakeCauses(mem, vals) ==
  IF Len(vals) = 0 THEN [slice |-> NilSlice, mem |-> mem]
  ELSE [slice |-> [arr |-> Len(mem.arrs) + 1, len |-> Len(vals), cap |-> Len(vals)],
        mem   |-> [mem EXCEPT !.arrs = Append(mem.arrs, vals)]]

\* no error decoded: a member that is absent or null
NoneDecoded(mem) == Decoded(Nil, ZeroError, mem)
NoList(mem) == [err |-> Nil, vals |-> <<>>, mem |-> mem]

\* the first member of the object, in the order of the payload, that its
\* field cannot hold; 0 if there is none
FirstWrong(doc) ==
  LET wrong == {i \in 1..Len(Canonical) : WrongKind(doc, Canonical[i])}
  IN IF wrong = {} THEN 0 ELSE CHOOSE i \in wrong : \A k \in wrong : i <= k

\* e.Causes after UnmarshalJSON: the elements of "causes", then "cause"
DecodedCauses(mem, doc, c, cl) ==
  IF Has(doc, "cause") /\ Get(doc, "cause").j # "null"
  THEN AppendOne(MakeCauses(mem, cl.vals).mem, MakeCauses(mem, cl.vals).slice, c.e)
  ELSE MakeCauses(mem, cl.vals)

\* UnmarshalJSON of an object, c and cl being what the UnmarshalJSON calls
\* that json.Unmarshal makes for "cause" and for the elements of "causes"
\* gave: their errors come first, then the first member of a wrong JSON
\* type, and the discriminator is tested last
DecodeObject(doc, site, c, cl) ==
  IF c.err # Nil THEN DecodeFailure(cl.mem, c.err, site)
  ELSE IF cl.err # Nil THEN DecodeFailure(cl.mem, cl.err, site)
  ELSE IF FirstWrong(doc) # 0
  THEN DecodeFailure(cl.mem, TypeError(Canonical[FirstWrong(doc)]), site)
  ELSE IF ~TypeExpected(Joined(StringOf(doc, "type", <<>>)))
  THEN DecodeFailure(cl.mem, InvalidTypeOf(cl.mem, Joined(StringOf(doc, "type", <<>>)),
                                        site), site)
  ELSE Decoded(Nil,
               [ZeroError EXCEPT !.Code = IntOf(doc, "code"),
                                 !.ID = StringOf(doc, "id", <<>>),
                                 !.Text = StringOf(doc, "text", <<>>),
                                 !.What = Joined(StringOf(doc, "what", <<>>)),
                                 !.Value = ValueOf(doc, "value"),
                                 !.Causes = DecodedCauses(cl.mem, doc, c, cl).slice],
               DecodedCauses(cl.mem, doc, c, cl).mem)

RECURSIVE Decode(_, _, _)
RECURSIVE DecodeList(_, _, _)

\* the elements of "causes" once the first is decoded
DecodeRest(items, site, d) ==
  IF d.err # Nil THEN [err |-> d.err, vals |-> <<>>, mem |-> d.mem]
  ELSE [DecodeList(d.mem, Tail(items), site) EXCEPT !.vals = <<d.e>> \o @]

\* the elements of "causes", each decoded by UnmarshalJSON, up to the first
\* that fails
DecodeList(mem, items, site) ==
  IF Len(items) = 0 THEN NoList(mem)
  ELSE DecodeRest(items, site, Decode(mem, items[1], site))

\* "causes" decoded after "cause"
DecodeCauses(doc, site, c) ==
  DecodeObject(doc, site, c,
               IF c.err = Nil /\ Has(doc, "causes") /\ Get(doc, "causes").j = "array"
               THEN DecodeList(c.mem, Get(doc, "causes").v[1], site)
               ELSE NoList(c.mem))

\* the body of UnmarshalJSON: the error returned, or nil and the Error the
\* receiver is set to
Decode(mem, payload, site) ==
  IF payload.j = "malformed" THEN DecodeFailure(mem, SyntaxError, site)
  ELSE IF payload.j \in {"string", "number", "array"}
  THEN DecodeFailure(mem, TypeError(""), site)
  ELSE IF payload.j = "null" THEN DecodeCauses(JObject(NoMembers), site, NoneDecoded(mem))
  ELSE DecodeCauses(payload, site,
                    IF Has(payload, "cause") /\ Get(payload, "cause").j # "null"
                    THEN Decode(mem, Get(payload, "cause"), site)
                    ELSE NoneDecoded(mem))

\* Error.UnmarshalJSON that clears its receiver before it decodes
UnmarshalJSONCleared(mem, e, payload, site) ==
  LET d == Decode(mem, payload, site)
  IN [ret  |-> d.err,
      recv |-> IF d.err = Nil THEN d.e ELSE ZeroError,
      mem  |-> d.mem]

\* Error.UnmarshalJSON
UnmarshalJSON(mem, e, payload, site) ==
  LET d == Decode(mem, payload, site)
  IN [ret  |-> d.err,
      recv |-> IF d.err = Nil THEN d.e ELSE e,
      mem  |-> d.mem]

(***************************************************************************)
(* The sentinels the package declares and FromHTTPStatusCode.              *)
(***************************************************************************)
\* the status codes of net/http the package uses
HTTPStatus ==
  [Found |-> 302,
   UseProxy |-> 305,
   BadRequest |-> 400,
   Unauthorized |-> 401,
   PaymentRequired |-> 402,
   Forbidden |-> 403,
   NotFound |-> 404,
   MethodNotAllowed |-> 405,
   NotAcceptable |-> 406,
   ProxyAuthRequired |-> 407,
   RequestTimeout |-> 408,
   Conflict |-> 409,
   Gone |-> 410,
   LengthRequired |-> 411,
   PreconditionFailed |-> 412,
   RequestEntityTooLarge |-> 413,
   RequestURITooLong |-> 414,
   UnsupportedMediaType |-> 415,
   RequestedRangeNotSatisfiable |-> 416,
   ExpectationFailed |-> 417,
   Teapot |-> 418,
   MisdirectedRequest |-> 421,
   UnprocessableEntity |-> 422,
   Locked |-> 423,
   FailedDependency |-> 424,
   TooEarly |-> 425,
   UpgradeRequired |-> 426,
   PreconditionRequired |-> 428,
   TooManyRequests |-> 429,
   RequestHeaderFieldsTooLarge |-> 431,
   UnavailableForLegalReasons |-> 451,
   InternalServerError |-> 500,
   NotImplemented |-> 501,
   BadGateway |-> 502,
   ServiceUnavailable |-> 503,
   GatewayTimeout |-> 504,
   HTTPVersionNotSupported |-> 505,
   VariantAlsoNegotiates |-> 506,
   InsufficientStorage |-> 507,
   LoopDetected |-> 508,
   NotExtended |-> 510,
   NetworkAuthenticationRequired |-> 511]

\* the declarations: the variable, the status code, the ID and the Text given
\* to NewSentinel
StandardDeclarations ==
  <<<<"ArgumentMissing", "BadRequest", <<"error", "argument", "missing">>, <<"Argument ", "%s", " is missing">>>>,
    <<"ArgumentExpected", "BadRequest", <<"error", "argument", "expected">>, <<"Argument ", "%s", " is invalid (value: ", "%v", ", expected: ", "%v", ")">>>>,
    <<"ArgumentInvalid", "BadRequest", <<"error", "argument", "invalid">>, <<"Argument ", "%s", " is invalid (value: ", "%v", ")">>>>,
    <<"CreationFailed", "InternalServerError", <<"error", "creation", "failed">>, <<"Failed Creating ", "%s">>>>,
    <<"Empty", "BadRequest", <<"error", "empty">>, <<"%s", " is empty">>>>,
    <<"EnvironmentMissing", "BadRequest", <<"error", "environment", "missing">>, <<"Environment variable ", "%s", " is missing">>>>,
    <<"EnvironmentInvalid", "BadRequest", <<"error", "environment", "invalid">>, <<"Environment variable ", "%s", " is invalid (value: ", "%v", ")">>>>,
    <<"DuplicateFound", "Found", <<"error", "found">>, <<"%s", " ", "%s", " Found">>>>,
    <<"Invalid", "BadRequest", <<"error", "invalid">>, <<"Invalid ", "%s", " (value: ", "%v", ", expected: ", "%v", ")">>>>,
    <<"InvalidType", "BadRequest", <<"error", "type", "invalid">>, <<"Invalid Type ", "%s", ", expected: ", "%s">>>>,
    <<"InvalidURL", "BadRequest", <<"error", "url", "invalid">>, <<"Invalid URL ", "%s">>>>,
    <<"JSONMarshalError", "BadRequest", <<"error", "json", "marshal">>, <<"JSON failed to marshal data">>>>,
    <<"JSONUnmarshalError", "BadRequest", <<"error", "json", "unmarshal">>, <<"JSON failed to unmarshal data">>>>,
    <<"JSONPropertyMissing", "BadRequest", <<"error", "json", "property", "missing">>, <<"JSON data is missing property ", "%s">>>>,
    <<"Missing", "BadRequest", <<"error", "missing">>, <<"%s", " is missing">>>>,
    <<"NotConnected", "Gone", <<"error", "client", "not_connected">>, <<"%s", " Not Connected">>>>,
    <<"NotInitialized", "BadRequest", <<"error", "notinitialized">>, <<"%s", " is not yet initialized">>>>,
    <<"NotFound", "NotFound", <<"error", "notfound">>, <<"%s", " ", "%s", " Not Found">>>>,
    <<"NotImplemented", "NotImplemented", <<"error", "notimplemented">>, <<"Not Implemented">>>>,
    <<"IndexOutOfBounds", "BadRequest", <<"error", "index", "outofbounds">>, <<"Index ", "%s", " is out of bounds (value: ", "%v", ")">>>>,
    <<"RuntimeError", "InternalServerError", <<"error", "runtime">>, <<"Runtime Error">>>>,
    <<"TooManyErrors", "InternalServerError", <<"error", "toomany">>, <<"Too Many">>>>,
    <<"Unauthorized", "Unauthorized", <<"error", "unauthorized">>, <<"Invalid Credentials">>>>,
    <<"Unsupported", "MethodNotAllowed", <<"error", "unsupported">>, <<"Unsupported ", "%s", ": ", "%s">>>>,
    <<"UnknownError", "InternalServerError", <<"error", "unknown">>, <<"Unknown Error: ", "%s">>>>>>

HTTPDeclarations ==
  <<<<"HTTPBadGateway", "BadGateway", <<"error", "http", "gateway">>, <<"Bad Gateway">>>>,
    <<"HTTPBadRequest", "BadRequest", <<"error", "http", "request">>, <<"Bad Request. ", "%s">>>>,
    <<"HTTPForbidden", "Forbidden", <<"error", "http", "forbidden">>, <<"Forbidden">>>>,
    <<"HTTPInternalServerError", "InternalServerError", <<"error", "http", "server">>, <<"Internal Server Error">>>>,
    <<"HTTPMethodNotAllowed", "MethodNotAllowed", <<"error", "http", "notallowed">>, <<"Method Not Allowed">>>>,
    <<"HTTPNotFound", "NotFound", <<"error", "http", "notfound">>, <<"Not Found">>>>,
    <<"HTTPNotImplemented", "NotImplemented", <<"error", "http", "notimplemented">>, <<"Not Implemented">>>>,
    <<"HTTPServiceUnavailable", "ServiceUnavailable", <<"error", "http", "unavailable">>, <<"Service Unavailable">>>>,
    <<"HTTPUnauthorized", "Unauthorized", <<"error", "http", "unauthorized">>, <<"Unauthorized">>>>,
    <<"HTTPStatusConflict", "Conflict", <<"error", "http", "conflict">>, <<"Conflict">>>>,
    <<"HTTPStatusExpectationFailed", "ExpectationFailed", <<"error", "http", "expectation", "failed">>, <<"Expectation Failed">>>>,
    <<"HTTPStatusFailedDependency", "FailedDependency", <<"error", "http", "failed", "dependency">>, <<"Failed Dependency">>>>,
    <<"HTTPStatusGatewayTimeout", "GatewayTimeout", <<"error", "http", "gateway", "timeout">>, <<"Gateway Timeout">>>>,
    <<"HTTPStatusGone", "Gone", <<"error", "http", "gone">>, <<"Gone">>>>,
    <<"HTTPStatusHTTPVersionNotSupported", "HTTPVersionNotSupported", <<"error", "http", "unsupported", "version">>, <<"HTTP Version Not Supported">>>>,
    <<"HTTPStatusInsufficientStorage", "InsufficientStorage", <<"error", "http", "storage", "insufficient">>, <<"Insufficient Storage">>>>,
    <<"HTTPStatusLengthRequired", "LengthRequired", <<"error", "http", "length", "required">>, <<"Length Required">>>>,
    <<"HTTPStatusLocked", "Locked", <<"error", "http", "locked">>, <<"Locked">>>>,
    <<"HTTPStatusLoopDetected", "LoopDetected", <<"error", "http", "loop", "detected">>, <<"Loop Detected">>>>,
    <<"HTTPStatusMisdirectedRequest", "MisdirectedRequest", <<"error", "http", "misdirect", "request">>, <<"Misdirected Request">>>>,
    <<"HTTPStatusNetworkAuthenticationRequired", "NetworkAuthenticationRequired", <<"error", "http", "network", "authentication", "required">>, <<"Network Authentication Required">>>>,
    <<"HTTPStatusNotAcceptable", "NotAcceptable", <<"error", "http", "notacceptable">>, <<"Not Acceptable">>>>,
    <<"HTTPStatusNotExtended", "NotExtended", <<"error", "http", "notextended">>, <<"Not Extended">>>>,
    <<"HTTPStatusPaymentRequired", "PaymentRequired", <<"error", "http", "payment", "required">>, <<"Payment Required">>>>,
    <<"HTTPStatusPreconditionFailed", "PreconditionFailed", <<"error", "http", "precondition", "failed">>, <<"Precondition Failed">>>>,
    <<"HTTPStatusPreconditionRequired", "PreconditionRequired", <<"error", "precondition", "required">>, <<"Precondition Required">>>>,
    <<"HTTPStatusProxyAuthRequired", "ProxyAuthRequired", <<"error", "http", "proxy", "authentication", "required">>, <<"Proxy Authentication Required">>>>,
    <<"HTTPStatusRequestEntityTooLarge", "RequestEntityTooLarge", <<"error", "http", "request", "entity", "toolarge">>, <<"Request Entity Too Large">>>>,
    <<"HTTPStatusRequestHeaderFieldsTooLarge", "RequestHeaderFieldsTooLarge", <<"error", "http", "request", "fields", "toolarge">>, <<"Request Header Fields Too Large">>>>,
    <<"HTTPStatusRequestTimeout", "RequestTimeout", <<"error", "http", "request", "timeout">>, <<"Request Timeout">>>>,
    <<"HTTPStatusRequestURITooLong", "RequestURITooLong", <<"error", "http", "request", "uri", "toolong">>, <<"Request URI Too Long">>>>,
    <<"HTTPStatusRequestedRangeNotSatisfiable", "RequestedRangeNotSatisfiable", <<"error", "http", "request", "range", "notstatisfiable">>, <<"Requested Range Not Satisfiable">>>>,
    <<"HTTPStatusTeapot", "Teapot", <<"error", "http", "teapot">>, <<"I'm a teapot">>>>,
    <<"HTTPStatusTooEarly", "TooEarly", <<"error", "http", "tooearly">>, <<"Too Early">>>>,
    <<"HTTPStatusTooManyRequests", "TooManyRequests", <<"error", "http", "request", "toomany">>, <<"Too Many Requests">>>>,
    <<"HTTPStatusUnavailableForLegalReasons", "UnavailableForLegalReasons", <<"error", "http", "unavailable">>, <<"Unavailable For Legal Reasons">>>>,
    <<"HTTPStatusUnprocessableEntity", "UnprocessableEntity", <<"error", "http", "entity", "unprocessable">>, <<"Unprocessable Entity">>>>,
    <<"HTTPStatusUnsupportedMediaType", "UnsupportedMediaType", <<"error", "http", "mediatype", "unsupported">>, <<"Unsupported Media Type">>>>,
    <<"HTTPStatusUpgradeRequired", "UpgradeRequired", <<"error", "http", "upgrade", "required">>, <<"Upgrade Required">>>>,
    <<"HTTPStatusUseProxy", "UseProxy", <<"error", "http", "proxy", "required">>, <<"Use Proxy">>>>,
    <<"HTTPStatusVariantAlsoNegotiates", "VariantAlsoNegotiates", <<"error", "http", "variant", "alsonegotiate">>, <<"Variant Also Negotiates">>>>>>

\* the cases of the switch of FromHTTPStatusCode: the status code and the
\* sentinel returned for it
Cases ==
  <<<<"BadGateway", "HTTPBadGateway">>,
    <<"BadRequest", "HTTPBadRequest">>,
    <<"Forbidden", "HTTPForbidden">>,
    <<"InternalServerError", "HTTPInternalServerError">>,
    <<"MethodNotAllowed", "HTTPMethodNotAllowed">>,
    <<"NotFound", "HTTPNotFound">>,
    <<"NotImplemented", "HTTPNotImplemented">>,
    <<"ServiceUnavailable", "HTTPServiceUnavailable">>,
    <<"Unauthorized", "HTTPUnauthorized">>,
    <<"Conflict", "HTTPStatusConflict">>,
    <<"ExpectationFailed", "HTTPStatusExpectationFailed">>,
    <<"FailedDependency", "HTTPStatusFailedDependency">>,
    <<"GatewayTimeout", "HTTPStatusGatewayTimeout">>,
    <<"Gone", "HTTPStatusGone">>,
    <<"HTTPVersionNotSupported", "HTTPStatusHTTPVersionNotSupported">>,
    <<"InsufficientStorage", "HTTPStatusInsufficientStorage">>,
    <<"LengthRequired", "HTTPStatusLengthRequired">>,
    <<"Locked", "HTTPStatusLocked">>,
    <<"LoopDetected", "HTTPStatusLoopDetected">>,
    <<"MisdirectedRequest", "HTTPStatusMisdirectedRequest">>,
    <<"NetworkAuthenticationRequired", "HTTPStatusNetworkAuthenticationRequired">>,
    <<"NotAcceptable", "HTTPStatusNotAcceptable">>,
    <<"NotExtended", "HTTPStatusNotExtended">>,
    <<"PaymentRequired", "HTTPStatusPaymentRequired">>,
    <<"PreconditionFailed", "HTTPStatusPreconditionFailed">>,
    <<"PreconditionRequired", "HTTPStatusPreconditionRequired">>,
    <<"ProxyAuthRequired", "HTTPStatusProxyAuthRequired">>,
    <<"RequestEntityTooLarge", "HTTPStatusRequestEntityTooLarge">>,
    <<"RequestHeaderFieldsTooLarge", "HTTPStatusRequestHeaderFieldsTooLarge">>,
    <<"RequestTimeout", "HTTPStatusRequestTimeout">>,
    <<"RequestURITooLong", "HTTPStatusRequestURITooLong">>,
    <<"RequestedRangeNotSatisfiable", "HTTPStatusRequestedRangeNotSatisfiable">>,
    <<"Teapot", "HTTPStatusTeapot">>,
    <<"TooEarly", "HTTPStatusTooEarly">>,
    <<"TooManyRequests", "HTTPStatusTooManyRequests">>,
    <<"UnavailableForLegalReasons", "HTTPStatusUnavailableForLegalReasons">>,
    <<"UnprocessableEntity", "HTTPStatusUnprocessableEntity">>,
    <<"UnsupportedMediaType", "HTTPStatusUnsupportedMediaType">>,
    <<"UpgradeRequired", "HTTPStatusUpgradeRequired">>,
    <<"UseProxy", "HTTPStatusUseProxy">>,
    <<"VariantAlsoNegotiates", "HTTPStatusVariantAlsoNegotiates">>>>

Declarations == StandardDeclarations \o HTTPDeclarations
StandardNames ==
  {StandardDeclarations[i][1] : i \in DOMAIN StandardDeclarations}
HTTPNames == {HTTPDeclarations[i][1] : i \in DOMAIN HTTPDeclarations}
DeclaredNames == StandardNames \cup HTTPNames

\* var <name> = NewSentinel(http.Status<status>, id, message)
Declared(name) ==
  LET row == Declarations[CHOOSE i \in DOMAIN Declarations :
                            Declarations[i][1] = name]
  IN NewSentinel(HTTPStatus[row[2]], row[3], row[4])

\* the codes the switch lists
ListedCodes == {HTTPStatus[Cases[i][1]] : i \in DOMAIN Cases}

\* fmt.Sprintf("error.http.%d", code) and fmt.Sprintf("HTTP Status %d", code)
HTTPStatusID(code) == <<"error", "http", Itoa(code)>>
HTTPStatusText(code) == <<"HTTP Status ", Itoa(code)>>

\* FromHTTPStatusCode that gives the sentinel as it is declared
FromHTTPStatusCodeNoStack(mem, code, site) ==
  LET hit == {i \in DOMAIN Cases : HTTPStatus[Cases[i][1]] = code}
  IN IF hit # {}
     THEN [ret |-> Declared(Cases[CHOOSE i \in hit : TRUE][2]), mem |-> mem]
     ELSE [ret |-> NewSentinel(code, HTTPStatusID(code), HTTPStatusText(code)),
           mem |-> mem]

\* FromHTTPStatusCode
FromHTTPStatusCode(mem, code, site) ==
  LET hit == {i \in DOMAIN Cases : HTTPStatus[Cases[i][1]] = code}
      r   == IF hit # {}
             THEN ErrorWithStack(mem, Declared(Cases[CHOOSE i \in hit : TRUE][2]), site)
             ELSE ErrorWithStack(mem, NewSentinel(code, HTTPStatusID(code),
                                                  HTTPStatusText(code)), site)
  IN [ret |-> r.ret, mem |-> r.mem]

(***************************************************************************)
(* The state machine: a client program that calls the package.  sentinel   *)
(* holds the package-level sentinel variables, arrs and objs the memory,   *)
(* pool the client's local variables (each an error interface) and last    *)
(* the last call made: its operation, receiver, arguments, result, the     *)
(* value of the client's As target after the call and whether the call     *)
(* left the client a new value in a local variable.  callers are the       *)
(* goroutines of the program that shares the sentinels.                    *)
(***************************************************************************)
Memory == [arrs |-> arrs, objs |-> objs]

Call(op, loc, recv, args, ret, ok, target, kept) ==
  [op |-> op, loc |-> loc, recv |-> recv, args |-> args, ret |-> ret,
   ok |-> ok, target |-> target, kept |-> kept]

NoLoc == [t |-> "none", n |-> "", i |-> 0]
SentinelLoc(n) == [t |-> "sentinel", n |-> n, i |-> 0]
PoolLoc(i) == [t |-> "pool", n |-> "", i |-> i]

\* the goroutines that share the sentinels: each is idle, has called a method
\* (the receiver is copied into e) or has returned; reads and writes are the
\* memory cells it has read and written that other goroutines can reach
NoOp == [name |-> "", what |-> "", values |-> <<>>, err |-> Nil]
Idle ==
  [pc |-> "idle", n |-> "", op |-> NoOp, e |-> ZeroError, ret |-> Nil,
   reads |-> {}, writes |-> {}]
Callers == 1..NumCallers

Init ==
  /\ sentinel = SentinelInit
  /\ callers = [c \in Callers |-> Idle]
  /\ arrs = <<>>
  /\ objs = <<>>
  /\ pool = <<>>
  /\ last = Call("init", NoLoc, Nil, <<>>, Nil, FALSE, NilPtr, TRUE)

\* the places a method of Error can be called on: a sentinel variable, a local
\* variable holding an Error (through a type assertion) or a *Error
Locs ==
  {SentinelLoc(n) : n \in SentinelNames}
    \cup {PoolLoc(i) : i \in {j \in 1..Len(pool) : ~IsForeign(pool[j])}}

ValueAt(loc) ==
  IF loc.t = "sentinel" THEN sentinel[loc.n] ELSE Deref(Memory, pool[loc.i])

\* a call through a *Error works on the object it points to; a call on the
\* Error held by an interface works on a temporary
StoresBack(loc) == loc.t = "pool" /\ IsPtr(pool[loc.i])

\* the errors the client passes as arguments
Whats == {"k"}
ValueLists == {<<>>, <<Box("v")>>}
Messages == {<<"oops">>}
Foreigns == {Boom}
Locals == {pool[i] : i \in 1..Len(pool)}
ErrArgs ==
  {Nil} \cup Foreigns \cup {sentinel[n] : n \in SentinelNames} \cup Locals

\* lists of at most n errors
ErrLists(n) == UNION {[1..k -> ErrArgs] : k \in 0..n}

\* the targets the client hands to errors.Is and the *Error variables it
\* hands to errors.As: nil, &Error{} or the Clone of a sentinel
IsTargets == {ZeroError} \cup ErrArgs
AsTargets == {"nil", "zero"} \cup SentinelNames

\* the run of the client goes on as long as each call leaves it a new value:
\* it ends when it returns the error WrapErrors composed, when it has tested
\* an error with Is or Unwrap and when a call gave it nil
Done == ~last.kept

\* the client has a local variable left for the result of a call
Running == ~Done /\ Len(pool) < MaxPool

\* the effect of a call of a method on the place loc
Method(op, loc, args, r) ==
  /\ sentinel' = IF loc.t = "sentinel"
                 THEN [sentinel EXCEPT ![loc.n] = r.recv] ELSE sentinel
  /\ arrs' = r.mem.arrs
  /\ objs' = IF StoresBack(loc)
             THEN [r.mem.objs EXCEPT ![pool[loc.i].addr] = r.recv]
             ELSE r.mem.objs
  /\ pool' = IF r.ret # Nil THEN Append(pool, r.ret) ELSE pool
  /\ last' = Call(op, loc, ValueAt(loc), args, r.ret, r.ret # Nil, NilPtr, r.ret # Nil)
  /\ UNCHANGED callers

\* the effect of a call of a package-level function
Function(op, args, r) ==
  /\ arrs' = r.mem.arrs
  /\ objs' = r.mem.objs
  /\ pool' = IF r.ret # Nil THEN Append(pool, r.ret) ELSE pool
  /\ last' = Call(op, NoLoc, Nil, args, r.ret, r.ret # Nil, NilPtr, r.ret # Nil)
  /\ UNCHANGED <<callers, sentinel>>

DoWith(loc, what, values) ==
  /\ Running
  /\ Method("With", loc, <<what, values>>,
            With(Memory, ValueAt(loc), what, values, Site.With))

DoWrap(loc, err) ==
  /\ Running
  /\ Method("Wrap", loc, <<err>>,
            ErrorWrap(Memory, ValueAt(loc), err, Site.Wrap))

DoWithStack(loc) ==
  /\ Running
  /\ Method("WithStack", loc, <<>>,
            ErrorWithStack(Memory, ValueAt(loc), Site.WithStack))

DoWithoutStack(loc) ==
  /\ Running
  /\ Method("WithoutStack", loc, <<>>, ErrorWithoutStack(Memory, ValueAt(loc)))

DoClone(loc) ==
  /\ Running
  /\ Method("Clone", loc, <<>>, Clone(Memory, ValueAt(loc)))

DoNew(message) ==
  /\ Running
  /\ LET r == New(Memory, message, Site.PkgNew)
     IN Function("New", <<message>>, [ret |-> r.ret, mem |-> r.mem])

DoPkgWithStack(err) ==
  /\ Running
  /\ Function("PkgWithStack", <<err>>, WithStack(Memory, err, Site.PkgWithStack))

DoPkgWithoutStack(err) ==
  /\ Running
  /\ Function("PkgWithoutStack", <<err>>, WithoutStack(Memory, err))

DoPkgWrap(err, message) ==
  /\ Running
  /\ Function("PkgWrap", <<err>>, Wrap(Memory, err, message, Site.PkgWrap))

DoWrapf(err, message) ==
  /\ Running
  /\ Function("Wrapf", <<err>>, Wrapf(Memory, err, message, Site.PkgWrap))

DoWithMessage(err, message) ==
  /\ Running
  /\ Function("WithMessage", <<err>>,
              WithMessage(Memory, err, message, Site.PkgWrap))

DoWithMessagef(err, message) ==
  /\ Running
  /\ Function("WithMessagef", <<err>>,
              WithMessagef(Memory, err, message, Site.PkgWrap))

\* the client builds a *url.Error around an error
DoURLError(inner) ==
  /\ Running
  /\ inner # Nil
  /\ Function("URLError", <<inner>>,
              [ret |-> URLError(<<"Get x: ">> \o ErrorString(Memory, inner, MaxWalk),
                                inner),
               mem |-> Memory])

\* return errors.WrapErrors(err, errors...)
DoWrapErrors(err, errors) ==
  /\ Running
  /\ LET r == WrapErrors(Memory, err, errors, Site.WrapErrors)
     IN /\ arrs' = r.mem.arrs
        /\ objs' = r.mem.objs
        /\ last' = Call("WrapErrors", NoLoc, Nil, <<err>> \o errors, r.ret,
                        r.ret # Nil, NilPtr, FALSE)
  /\ UNCHANGED <<callers, sentinel, pool>>

DoIs(err, target) ==
  /\ ~Done
  /\ last' = Call("Is", NoLoc, Nil, <<err, target>>, Nil,
                  Is(Memory, err, target), NilPtr, FALSE)
  /\ UNCHANGED <<callers, sentinel, arrs, objs, pool>>

DoUnwrap(err) ==
  /\ ~Done
  /\ last' = Call("Unwrap", NoLoc, Nil, <<err>>, Unwrap(Memory, err), TRUE, NilPtr,
                  FALSE)
  /\ UNCHANGED <<callers, sentinel, arrs, objs, pool>>

\* err.Error()
DoError(err) ==
  /\ ~Done
  /\ last' = Call("Error", NoLoc, Nil, <<err>>, ErrorOf(Memory, err), TRUE, NilPtr,
                  FALSE)
  /\ UNCHANGED <<callers, sentinel, arrs, objs, pool>>

\* details := <nil, &Error{} or a sentinel's Clone>; errors.As(err, &details)
DoAs(err, start) ==
  /\ Running
  /\ LET c  == IF start = "nil" THEN [ret |-> NilPtr, mem |-> Memory]
               ELSE IF start = "zero" THEN Clone(Memory, ZeroError)
               ELSE Clone(Memory, sentinel[start])
         r  == As(c.mem, err, Target("*Error", c.ret))
     IN /\ arrs' = r.mem.arrs
        /\ objs' = r.mem.objs
        /\ pool' = IF r.val # NilPtr THEN Append(pool, r.val) ELSE pool
        /\ last' = Call("As", NoLoc, Nil, <<err, c.ret>>, Nil, r.ok, r.val,
                        r.val # NilPtr)
  /\ UNCHANGED <<callers, sentinel>>

Next ==
  \/ \E loc \in Locs, what \in Whats, values \in ValueLists :
       DoWith(loc, what, values)
  \/ \E loc \in Locs, err \in ErrArgs : DoWrap(loc, err)
  \/ \E loc \in Locs : DoWithStack(loc)
  \/ \E loc \in Locs : DoWithoutStack(loc)
  \/ \E loc \in Locs : DoClone(loc)
  \/ \E message \in Messages : DoNew(message)
  \/ \E err \in ErrArgs : DoPkgWithStack(err)
  \/ \E err \in ErrArgs : DoPkgWithoutStack(err)
  \/ \E err \in ErrArgs, message \in Messages : DoPkgWrap(err, message)
  \/ \E err \in ErrArgs, message \in Messages : DoWrapf(err, message)
  \/ \E err \in ErrArgs, message \in Messages : DoWithMessage(err, message)
  \/ \E err \in ErrArgs, message \in Messages : DoWithMessagef(err, message)
  \/ \E inner \in ErrArgs : DoURLError(inner)
  \/ \E err \in ErrArgs, errors \in ErrLists(MaxRest) : DoWrapErrors(err, errors)
  \/ \E err \in Locals, target \in IsTargets : DoIs(err, target)
  \/ \E err \in Locals : DoUnwrap(err)
  \/ \E err \in ErrArgs, start \in AsTargets : DoAs(err, start)
  \/ \E err \in Locals : DoError(err)

Spec == Init /\ [][Next]_vars

(***************************************************************************)
(* A second client: it gives errors several causes with WithCause, tests   *)
(* them with HasCauses and AsError and exchanges them as JSON.             *)
(***************************************************************************)
\* the local variables a method of Error can be called on, and the *Error
\* among them
VarLocs == {PoolLoc(i) : i \in {j \in 1..Len(pool) : ~IsForeign(pool[j])}}
PtrLocs == {PoolLoc(i) : i \in {j \in 1..Len(pool) : IsPtr(pool[j])}}

\* the values the client gives With: a string, two int64, a channel
JSONValueLists ==
  {<<>>, <<Box("v")>>, <<IntValue("0")>>, <<IntValue("9007199254740993")>>,
   <<ChanValue>>}

\* the errors the client gives as causes
CauseArgs == {Nil, Boom, Errno(<<"errno 2">>)} \cup Locals

\* lists of at most n causes
CauseLists(n) == UNION {[1..k -> CauseArgs] : k \in 0..n}

\* the payloads the client decodes: no JSON text, or an object whose "type",
\* "id" and "cause" are each absent, well formed or ill formed
TypeCases == {"absent", "error", "blob", "number"}
IDCases == {"absent", "string", "number"}
CauseCases == {"absent", "error", "blob"}
OtherPayloads == <<Malformed, JNull, JString(Pieces("error"))>>

PayloadOf(t, i, c) ==
  JObject(
    Member(t \notin {"absent", "number"}, "type", JString(Pieces(t)))
    @@ Member(t = "number", "type", JNumber("1"))
    @@ Member(i = "string", "id", JString(<<"error", "test">>))
    @@ Member(i = "number", "id", JNumber("1000"))
    @@ Member(c # "absent", "cause",
              JObject(("type" :> JString(Pieces(c))) @@ ("code" :> JNumber("404")))))

\* e := &errors.Error{}
DoZero ==
  /\ Running
  /\ objs' = Append(objs, ZeroError)
  /\ pool' = Append(pool, Ptr(Len(objs) + 1))
  /\ last' = Call("Zero", NoLoc, Nil, <<>>, Ptr(Len(objs) + 1), TRUE, NilPtr, TRUE)
  /\ UNCHANGED <<callers, sentinel, arrs>>

\* e.WithCause(errs...)
DoWithCause(loc, errs) ==
  /\ ~Done
  /\ Len(arrs) < MaxArrays
  /\ ValueAt(loc).Causes.len + Len(errs) <= MaxCauses
  /\ LET r == WithCause(Memory, ValueAt(loc), errs)
     IN /\ arrs' = r.mem.arrs
        /\ objs' = [r.mem.objs EXCEPT ![pool[loc.i].addr] = r.recv]
        /\ last' = Call("WithCause", loc, ValueAt(loc), errs, Nil, TRUE, NilPtr, TRUE)
  /\ UNCHANGED <<callers, sentinel, pool>>

\* e.HasCauses()
DoHasCauses(loc) ==
  /\ ~Done
  /\ last' = Call("HasCauses", loc, ValueAt(loc), <<>>, Nil, HasCauses(ValueAt(loc)),
                  NilPtr, FALSE)
  /\ UNCHANGED <<callers, sentinel, arrs, objs, pool>>

\* e.AsError()
DoAsError(loc) ==
  /\ ~Done
  /\ last' = Call("AsError", loc, ValueAt(loc), <<>>, AsError(ValueAt(loc)),
                  AsError(ValueAt(loc)) # Nil, NilPtr, FALSE)
  /\ UNCHANGED <<callers, sentinel, arrs, objs, pool>>

\* data, err := e.MarshalJSON()
DoMarshalJSON(loc) ==
  /\ ~Done
  /\ LET r == MarshalJSON(Memory, ValueAt(loc), Site.MarshalJSON)
     IN /\ arrs' = r.mem.arrs
        /\ objs' = r.mem.objs
        /\ last' = Call("MarshalJSON", loc, ValueAt(loc), <<>>,
                        [panic |-> r.panic, data |-> r.data, err |-> r.err],
                        ~r.panic /\ r.err = Nil, NilPtr, FALSE)
  /\ UNCHANGED <<callers, sentinel, pool>>

\* err := e.UnmarshalJSON(payload)
DoUnmarshalJSON(loc, payload) ==
  /\ ~Done
  /\ LET r == UnmarshalJSON(Memory, ValueAt(loc), payload, Site.UnmarshalJSON)
     IN /\ arrs' = r.mem.arrs
        /\ objs' = [r.mem.objs EXCEPT ![pool[loc.i].addr] = r.recv]
        /\ last' = Call("UnmarshalJSON", loc, ValueAt(loc), <<payload>>, r.ret,
                        r.ret = Nil, NilPtr, FALSE)
  /\ UNCHANGED <<callers, sentinel, pool>>

NextCauses ==
  \/ DoZero
  \/ \E loc \in VarLocs \cup {SentinelLoc("NotFound")} : DoClone(loc)
  \/ \E inner \in Locals : DoURLError(inner)
  \/ \E loc \in PtrLocs, errs \in CauseLists(MaxGiven) : DoWithCause(loc, errs)
  \/ \E loc \in VarLocs : DoHasCauses(loc)
  \/ \E loc \in VarLocs : DoAsError(loc)
  \/ \E loc \in VarLocs : DoMarshalJSON(loc)

SpecCauses == Init /\ [][NextCauses]_vars

\* A third client: it builds errors with a Value and decodes payloads.
NextJSON ==
  \/ DoZero
  \/ \E loc \in Locs, what \in Whats, values \in JSONValueLists :
       DoWith(loc, what, values)
  \/ \E loc \in Locs, err \in {Boom, Errno(<<"errno 2">>)} \cup Locals :
       DoWrap(loc, err)
  \/ \E inner \in Locals : DoURLError(inner)
  \/ \E loc \in Locs : DoClone(loc)
  \/ \E loc \in VarLocs : DoMarshalJSON(loc)
  \/ \E loc \in PtrLocs, t \in TypeCases, i \in IDCases, c \in CauseCases :
       DoUnmarshalJSON(loc, PayloadOf(t, i, c))
  \/ \E loc \in PtrLocs, k \in DOMAIN OtherPayloads :
       DoUnmarshalJSON(loc, OtherPayloads[k])

SpecJSON == Init /\ [][NextJSON]_vars

(***************************************************************************)
(* Goroutines that call With, Wrap and WithStack on the sentinels, without *)
(* any lock.  A call is two steps: the call itself, which copies the       *)
(* sentinel into the receiver e of the method, and the body of the method  *)
(* up to its return.                                                       *)
(***************************************************************************)
\* the memory cells of a sentinel variable and of a backing array
FieldNames == {"Code", "ID", "Text", "What", "Value", "Causes", "Stack"}
SentinelCells(n) == {<<"sentinel", n, f>> : f \in FieldNames}
ArrayCell(a, i) == <<"array", ToString(a), ToString(i)>>

\* the calls the goroutines make
SharedOps ==
  {[NoOp EXCEPT !.name = "With", !.what = "k", !.values = values] :
     values \in ValueLists}
    \cup {[NoOp EXCEPT !.name = "Wrap", !.err = err] : err \in {Nil} \cup Foreigns}
    \cup {[NoOp EXCEPT !.name = "WithStack"]}

\* the body of the method called, on the receiver e
Apply(op, mem, e) ==
  CASE op.name = "With" -> With(mem, e, op.what, op.values, Site.With)
    [] op.name = "Wrap" -> ErrorWrap(mem, e, op.err, Site.Wrap)
    [] op.name = "WithStack" -> ErrorWithStack(mem, e, Site.WithStack)

\* the cells of the backing arrays that differ between mem and after, the
\* cells of the arrays allocated in between included
Written(mem, after) ==
  UNION {{ArrayCell(a, i) : i \in {j \in 1..Len(after.arrs[a]) :
                                     \/ a > Len(mem.arrs)
                                     \/ after.arrs[a][j] # mem.arrs[a][j]}} :
           a \in 1..Len(after.arrs)}

\* the cells append reads of the array of the slice s: all of them when it
\* copies the elements to a larger array
AppendReads(s) ==
  IF s.len + 1 <= s.cap THEN {} ELSE {ArrayCell(s.arr, i) : i \in 1..s.len}

\* go sentinel.With(...), sentinel.Wrap(err) or sentinel.WithStack(): the
\* sentinel variable is read and copied into the receiver
DoCall(c, n, op) ==
  /\ callers[c].pc = "idle"
  /\ callers' = [callers EXCEPT ![c] =
                   [@ EXCEPT !.pc = "called", !.n = n, !.op = op,
                             !.e = sentinel[n],
                             !.reads = @ \cup SentinelCells(n)]]
  /\ UNCHANGED <<sentinel, arrs, objs, pool, last>>

\* the body of the method, up to its return
DoReturn(c) ==
  /\ callers[c].pc = "called"
  /\ LET e == callers[c].e
         r == Apply(callers[c].op, Memory, e)
     IN /\ arrs' = r.mem.arrs
        /\ objs' = r.mem.objs
        /\ sentinel' = IF r.recv # e
                       THEN [sentinel EXCEPT ![callers[c].n] = r.recv]
                       ELSE sentinel
        /\ callers' = [callers EXCEPT ![c] =
             [@ EXCEPT !.pc = "returned", !.ret = r.ret,
                       !.reads = @ \cup
                          (IF callers[c].op.name = "Wrap" /\ r.ret # Nil
                           THEN AppendReads(e.Causes) ELSE {}),
                       !.writes = @ \cup Written(Memory, r.mem) \cup
                          (IF r.recv # e THEN SentinelCells(callers[c].n)
                           ELSE {})]]
  /\ UNCHANGED <<pool, last>>

NextShared ==
  \/ \E c \in Callers, n \in SentinelNames, op \in SharedOps : DoCall(c, n, op)
  \/ \E c \in Callers : DoReturn(c)

SpecShared == Init /\ [][NextShared]_vars

(***************************************************************************)
(* A client that collects errors in a MultiError and collapses it.         *)
(***************************************************************************)
\* the collectors of the client: a nil *MultiError and the ones it made
Collectors == {a \in 1..Len(objs) : objs[a].kind = "MultiError"}
MultiPtrs == {MultiPtr(a) : a \in Collectors}

\* the errors the client collects
MultiArgs == {Nil, Boom} \cup Locals
MultiLists(n) == UNION {[1..k -> MultiArgs] : k \in 1..n}

\* errs := &errors.MultiError{}
DoMultiError ==
  /\ ~Done
  /\ Cardinality(Collectors) < MaxMulti
  /\ objs' = Append(objs, EmptyMultiError)
  /\ last' = Call("MultiError", NoLoc, Nil, <<>>, MultiPtr(Len(objs) + 1), TRUE,
                  NilPtr, TRUE)
  /\ UNCHANGED <<callers, sentinel, arrs, pool>>

\* errs.Append(errors...)
DoMultiAppend(me, errs) ==
  /\ ~Done
  /\ Len(objs[me.addr].Errors) + Len(errs) <= MaxErrors
  /\ objs' = MultiErrorAppend(Memory, me, errs).objs
  /\ last' = Call("MultiError.Append", NoLoc, me, errs, Nil, TRUE, NilPtr, TRUE)
  /\ UNCHANGED <<callers, sentinel, arrs, pool>>

\* errs.IsEmpty()
DoIsEmpty(me) ==
  /\ ~Done
  /\ last' = Call("MultiError.IsEmpty", NoLoc, me, <<>>, Nil, IsEmpty(Memory, me),
                  NilPtr, FALSE)
  /\ UNCHANGED <<callers, sentinel, arrs, objs, pool>>

\* return errs.AsError()
DoMultiAsError(me) ==
  /\ ~Done
  /\ LET r == MultiErrorAsError(Memory, me, Site.MultiAsError)
     IN /\ arrs' = r.mem.arrs
        /\ objs' = r.mem.objs
        /\ last' = Call("MultiError.AsError", NoLoc, me, <<>>, r.ret, r.ret # Nil,
                        NilPtr, FALSE)
  /\ UNCHANGED <<callers, sentinel, pool>>

NextMulti ==
  \/ DoMultiError
  \/ \E loc \in Locs : DoClone(loc)
  \/ \E loc \in Locs : DoWithStack(loc)
  \/ \E me \in MultiPtrs, errs \in MultiLists(MaxGiven) : DoMultiAppend(me, errs)
  \/ \E me \in {NilMulti} \cup MultiPtrs : DoIsEmpty(me)
  \/ \E me \in {NilMulti} \cup MultiPtrs : DoMultiAsError(me)

SpecMulti == Init /\ [][NextMulti]_vars

(***************************************************************************)
(* A client that makes errors from the sentinels of the package, from      *)
(* status codes and from messages, renders them and matches them against   *)
(* the sentinels.                                                          *)
(***************************************************************************)
\* the status codes the client gives: the ones net/http names and others
StatusCodes == ListedCodes \cup {-1, 0, 200, HTTPStatus.Found, 600}

\* err := errors.FromHTTPStatusCode(code)
DoFromHTTPStatusCode(code) ==
  /\ ~Done
  /\ Len(pool) < MaxHeld
  /\ Function("FromHTTPStatusCode", <<code>>,
              FromHTTPStatusCode(Memory, code, Site.FromHTTPStatusCode))

\* err := errors.<name>.With(what, values...)
DoSentinelWith(name, what, values) ==
  /\ ~Done
  /\ Len(pool) < MaxHeld
  /\ LET r == With(Memory, Declared(name), what, values, Site.With)
     IN /\ arrs' = r.mem.arrs
        /\ objs' = r.mem.objs
        /\ pool' = Append(pool, r.ret)
        /\ last' = Call("Sentinel.With", NoLoc, Declared(name), <<what, values>>,
                        r.ret, TRUE, NilPtr, TRUE)
  /\ UNCHANGED <<callers, sentinel>>

\* the messages the client gives New, and the formats and arguments it gives
\* Errorf
NewMessages == {<<"oops">>, <<>>, <<"disk ", "%s", " full">>}
ErrorfCalls ==
  {<<<<"oops">>, <<>>>>, <<<<"load ", "%v">>, <<Box("50")>>>>,
   <<<<"load ", "%v">>, <<Box("%s")>>>>}

\* err := errors.Errorf(format, args...)
DoErrorf(format, args) ==
  /\ ~Done
  /\ Len(pool) < MaxHeld
  /\ LET r == Errorf(Memory, format, args, Site.Errorf)
     IN Function("Errorf", <<format, args>>, [ret |-> r.ret, mem |-> r.mem])

NextSentinels ==
  \/ \E code \in StatusCodes : DoFromHTTPStatusCode(code)
  \/ \E name \in DeclaredNames, what \in Whats, values \in ValueLists :
       DoSentinelWith(name, what, values)
  \/ \E message \in NewMessages : Len(pool) < MaxHeld /\ DoNew(message)
  \/ \E call \in ErrorfCalls : DoErrorf(call[1], call[2])
  \/ \E err \in Locals : DoError(err)
  \/ \E err \in Locals, name \in HTTPNames : DoIs(err, Declared(name))

SpecSentinels == Init /\ [][NextSentinels]_vars

(***************************************************************************)
(* A client that derives several errors from one Error.                    *)
(***************************************************************************)
\* r := e.Wrap(err), the client keeping every error it derived
DoWrapKept(loc, err) ==
  /\ ~Done
  /\ Len(pool) < MaxDerived
  /\ Method("Wrap", loc, <<err>>,
            ErrorWrap(Memory, ValueAt(loc), err, Site.Wrap))

NextDerived ==
  \/ DoZero
  \/ \E loc \in PtrLocs, errs \in CauseLists(MaxGiven) : DoWithCause(loc, errs)
  \/ \E loc \in Locs, err \in {Boom, Errno(<<"errno 2">>)} : DoWrapKept(loc, err)

SpecDerived == Init /\ [][NextDerived]_vars

(***************************************************************************)
(* What the claims are stated with.                                        *)
(***************************************************************************)
\* the chain of err: err and the successive results of Unwrap, up to nil
RECURSIVE Links(_, _, _)
Links(mem, err, fuel) ==
  IF err = Nil \/ fuel = 0 THEN <<>>
  ELSE <<err>> \o Links(mem, Unwrap(mem, err), fuel - 1)

Chain(err) == Links(Memory, err, MaxWalk)

\* the ID of a link, a foreign error having none
LinkID(link) == IF IsForeign(link) THEN <<>> ELSE Deref(Memory, link).ID

ChainIDs(err) == [i \in 1..Len(Chain(err)) |-> LinkID(Chain(err)[i])]

\* a non-nil Error value without causes
CauseFree(x) == IsError(x) /\ x.Causes.len = 0

\* the sentinel S as With(what, values...) returns it
Derived(S, what, values) ==
  [SentinelInit[S] EXCEPT !.What = what,
                          !.Value = IF Len(values) > 0 THEN values[1] ELSE NilValue,
                          !.Stack = <<Site.With>>]

(***************************************************************************)
(* The claims.                                                             *)
(***************************************************************************)
\* C1: an error a sentinel S gives with With(what, value) matches S under
\* errors.Is and matches no sentinel T whose ID differs from the ID of S.
C1_IdentityMatching ==
  last.op = "Is" =>
    \A S \in SentinelNames, T \in SentinelNames, what \in Whats, values \in ValueLists :
      (last.args[1] = Derived(S, what, values) /\ last.args[2] = SentinelInit[T])
        => (last.ok <=> SentinelInit[S].ID = SentinelInit[T].ID)

C1_Witness ==
  /\ last.op = "Is"
  /\ last.args[1] = Derived("NotFound", "k", <<Box("v")>>)
  /\ last.args[2] = SentinelInit["ArgumentMissing"]
  /\ ~last.ok

\* C2: whatever With, Wrap, WithStack, WithoutStack and Clone calls are made
\* on the sentinels, every field of every sentinel keeps its initial value.
C2_SentinelImmutable == sentinel = SentinelInit

C2_Witness ==
  /\ Len(pool) = 2
  /\ last.op = "With"
  /\ last.loc = SentinelLoc("NotFound")
  /\ pool[1] = [NotFound EXCEPT !.Causes = [arr |-> 1, len |-> 1, cap |-> 1],
                                !.Stack = <<Site.Wrap>>]

\* C3: Wrap of nil is nil, WrapErrors of a nil first error is nil whatever
\* follows, WrapErrors of one error is that error, and the package-level
\* WithStack, WithoutStack, Wrap, Wrapf, WithMessage and WithMessagef give
\* nil for a nil error.
C3_NilTransparency ==
  /\ (last.op = "Wrap" /\ last.args[1] = Nil) => last.ret = Nil
  /\ (last.op = "WrapErrors" /\ last.args[1] = Nil) => last.ret = Nil
  /\ (last.op = "WrapErrors" /\ Len(last.args) = 1) => last.ret = last.args[1]
  /\ (/\ last.op \in {"PkgWithStack", "PkgWithoutStack", "PkgWrap", "Wrapf",
                      "WithMessage", "WithMessagef"}
      /\ last.args[1] = Nil) => last.ret = Nil

C3_Witness ==
  /\ last.op = "Wrap"
  /\ last.args[1] = Nil
  /\ last.recv.Causes.len = 1
  /\ last.ret = Nil

\* C4: WrapErrors of non-nil Error values without causes gives an error
\* whose chain has the IDs of the arguments, in the order of the arguments,
\* and ends after the last of them.
C4_ChainOrder ==
  (last.op = "WrapErrors" /\ \A i \in 1..Len(last.args) : CauseFree(last.args[i]))
    => ChainIDs(last.ret) = [i \in 1..Len(last.args) |-> last.args[i].ID]

C4_Witness ==
  /\ last.op = "WrapErrors"
  /\ Len(last.args) = 3
  /\ \A i \in 1..3 : CauseFree(last.args[i])
  /\ last.args[1].ID # last.args[2].ID
  /\ last.args[3].What = "k"

\* the places of the links of the chain of err whose ID is id
Matches(err, id) == {i \in 1..Len(Chain(err)) : LinkID(Chain(err)[i]) = id}

First(S) == CHOOSE i \in S : \A j \in S : i <= j

\* errors.As(err, &target), target being a non-nil *Error of ID X, succeeds
\* exactly when a link of err has the ID X, then leaves in target a new
\* object equal to the first such link, and else leaves target as it was
DirectedExtraction ==
  LET err   == last.args[1]
      start == last.args[2]
      found == Matches(err, objs[start.addr].ID)
  IN /\ last.ok <=> found # {}
     /\ (last.ok /\ found # {}) =>
          /\ last.target # start
          /\ \A i \in 1..Len(Chain(err)) : last.target # Chain(err)[i]
          /\ objs[last.target.addr] = Deref(Memory, Chain(err)[First(found)])
     /\ ~last.ok => last.target = start

\* C5, as claimed: directed extraction on every chain whose links are Error
\* values or *Error pointers.
C5_AsOnErrorsAndPointers ==
  (/\ last.op = "As"
   /\ last.args[2] # NilPtr
   /\ \A i \in 1..Len(Chain(last.args[1])) : ~IsForeign(Chain(last.args[1])[i]))
    => DirectedExtraction

\* C5, amended: directed extraction on every chain whose links are all Error
\* values.  A *Error link is assignable to the target: errors.As stores that
\* very pointer in the target, whatever its ID, before Error.As is asked.
C5_DirectedExtraction ==
  (/\ last.op = "As"
   /\ last.args[2] # NilPtr
   /\ \A i \in 1..Len(Chain(last.args[1])) : IsError(Chain(last.args[1])[i]))
    => DirectedExtraction

C5_Witness ==
  /\ last.op = "As"
  /\ last.args[2] # NilPtr
  /\ Len(Chain(last.args[1])) = 2
  /\ \A i \in 1..2 : IsError(Chain(last.args[1])[i])
  /\ Matches(last.args[1], objs[last.args[2].addr].ID) = {2}
  /\ last.ok

C7_UnwrapGivesWrapped ==
  (last.op = "Wrap" /\ last.args[1] # Nil)
    => Unwrap(Memory, last.ret) = last.args[1]

\* C7, amended: E.Wrap(err) has the Code, ID, Text, What and Value of E and
\* the causes of E followed by err; its Unwrap is err when E has no cause
\* and the first cause of E when it has one.
C7_WrapAppends ==
  (last.op = "Wrap" /\ last.args[1] # Nil) =>
    LET E == last.recv
        r == last.ret
    IN /\ IsError(r)
       /\ <<r.Code, r.ID, r.Text, r.What, r.Value>>
            = <<E.Code, E.ID, E.Text, E.What, E.Value>>
       /\ Elems(Memory, r.Causes) = Elems(Memory, E.Causes) \o <<last.args[1]>>
       /\ Unwrap(Memory, r) = IF E.Causes.len = 0 THEN last.args[1]
                              ELSE Elems(Memory, E.Causes)[1]

C7_Witness ==
  /\ last.op = "Wrap"
  /\ last.args[1] = Boom
  /\ last.recv.Causes.len = 1
  /\ IsError(Unwrap(Memory, last.ret))

\* C8, as claimed: WrapErrors of a non-nil first error is nil whenever one of
\* the errors that follow is nil, wherever it is.
C8_AnyNilGivesNil ==
  (/\ last.op = "WrapErrors"
   /\ last.args[1] # Nil
   /\ \E i \in 2..Len(last.args) : last.args[i] = Nil)
    => last.ret = Nil

\* C8, amended: WrapErrors of a non-nil first error is nil exactly when one
\* of the errors that follow, other than the last, is nil; a nil last error
\* is ignored.
C8_NilBeforeLastGivesNil ==
  (last.op = "WrapErrors" /\ last.args[1] # Nil) =>
    (last.ret = Nil <=> \E i \in 2..(Len(last.args) - 1) : last.args[i] = Nil)

C8_Witness ==
  /\ last.op = "WrapErrors"
  /\ Len(last.args) = 4
  /\ last.args[1] # Nil
  /\ last.args[2] # Nil
  /\ last.args[3] = Nil
  /\ last.args[4] # Nil
  /\ last.ret = Nil

\* the arguments of the WrapErrors call but the last, and what WrapErrors
\* gives for them
Front == SubSeq(last.args, 1, Len(last.args) - 1)

WithoutLast == WrapErrors(Memory, Front[1], Tail(Front), Site.WrapErrors)

SameChain ==
  /\ last.ret # Nil
  /\ [i \in 1..Len(Chain(last.ret)) |-> LinkID(Chain(last.ret)[i])]
       = LET m  == WithoutLast.mem
             ch == Links(m, WithoutLast.ret, MaxWalk)
         IN [i \in 1..Len(ch) |->
               IF IsForeign(ch[i]) THEN <<>> ELSE Deref(m, ch[i]).ID]

\* C9, as claimed: for non-nil errors e1..en, WrapErrors(e1, ..., en, nil) is
\* not nil and has the chain of WrapErrors(e1, ..., en).
C9_TrailingNilAnyErrors ==
  (/\ last.op = "WrapErrors"
   /\ Len(last.args) >= 2
   /\ last.args[Len(last.args)] = Nil
   /\ \A i \in 1..Len(Front) : Front[i] # Nil)
    => SameChain

\* C9, with en an Error value: the trailing nil changes nothing.  A last
\* error that is not an Error value is a link of WrapErrors(e1, ..., en) but
\* is replaced by a runtime Error in WrapErrors(e1, ..., en, nil).
C9_TrailingNilIgnored ==
  (/\ last.op = "WrapErrors"
   /\ Len(last.args) >= 2
   /\ last.args[Len(last.args)] = Nil
   /\ \A i \in 1..Len(Front) : Front[i] # Nil
   /\ IsError(Front[Len(Front)]))
    => SameChain

C9_Witness ==
  /\ last.op = "WrapErrors"
  /\ Len(last.args) = 4
  /\ last.args[4] = Nil
  /\ IsForeign(last.args[1])
  /\ IsError(last.args[2])
  /\ IsError(last.args[3])
  /\ Len(Chain(last.ret)) = 3

\* the cause a Wrap call has added to the Error r
Added(r) == Elems(Memory, r.Causes)[r.Causes.len]

Normalized(x, f) ==
  /\ IsError(x)
  /\ Len(x.ID) >= 2
  /\ SubSeq(x.ID, 1, 2) = <<"error", "runtime">>
  /\ x.Text = ErrorString(Memory, f, MaxWalk)

\* C10, as claimed: for an Error A and a foreign error f, the cause of
\* WrapErrors(A, f) is an Error whose ID begins with error.runtime and whose
\* Text is the message of f.
C10_ForeignCauseNormalized ==
  (/\ last.op = "WrapErrors"
   /\ Len(last.args) = 2
   /\ IsError(last.args[1])
   /\ IsForeign(last.args[2]))
    => Normalized(Unwrap(Memory, last.ret), last.args[2])

\* C10, amended: for an Error A, a foreign error f and a non-nil error g,
\* the cause WrapErrors(A, f, g) adds to A is an Error whose ID begins with
\* error.runtime and whose Text is the message of f, while the cause
\* WrapErrors(A, f) adds to A is f itself.
C10_ForeignNormalizedWhenFollowed ==
  /\ (/\ last.op = "WrapErrors"
      /\ Len(last.args) = 3
      /\ IsError(last.args[1])
      /\ IsForeign(last.args[2])
      /\ last.args[3] # Nil)
       => Normalized(Added(last.ret), last.args[2])
  /\ (/\ last.op = "WrapErrors"
      /\ Len(last.args) = 2
      /\ IsError(last.args[1])
      /\ IsForeign(last.args[2]))
       => Added(last.ret) = last.args[2]

C10_Witness ==
  /\ last.op = "WrapErrors"
  /\ Len(last.args) = 3
  /\ IsError(last.args[1])
  /\ last.args[2] = Boom
  /\ IsError(last.args[3])
  /\ Added(last.ret).Text = <<"boom">>

\* the Text of e with its slots filled: the first by What, the second by
\* Value, as fmt prints them
Filled(e) ==
  LET slots == [i \in 1..Len(e.Text) |->
                  Cardinality({j \in 1..i : IsVerb(e.Text[j])})]
  IN [i \in 1..Len(e.Text) |->
        IF ~IsVerb(e.Text[i]) THEN e.Text[i]
        ELSE IF slots[i] = 1 THEN e.What
        ELSE FormatVerb(e.Text[i], <<e.Value>>)]

\* the head of the message of e
HeadOf(e) ==
  IF Len(e.Text) > 0 THEN Filled(e)
  ELSE IF Len(e.ID) > 0 THEN e.ID
  ELSE <<"runtime error">>

RECURSIVE Flat(_)
Flat(ss) == IF Len(ss) = 0 THEN <<>> ELSE ss[1] \o Flat(Tail(ss))

\* C11, as claimed: the message of an Error is its head, followed, when it
\* has a cause, by "\nCaused by:\n\t" and the message of that cause.
C11_HeadThenTheCause ==
  (last.op = "Error" /\ ~IsForeign(last.args[1])) =>
    LET e == Deref(Memory, last.args[1])
        c == ErrorUnwrap(Memory, e)
    IN last.ret = IF c = Nil THEN HeadOf(e)
                  ELSE HeadOf(e) \o <<"\nCaused by:", "\n\t">> \o ErrorOf(Memory, c)

\* C11, amended: the message of an Error is its head, followed, when it has
\* causes, by "\nCaused by:" and then, for each cause in order, "\n\t" and
\* the message of that cause.
C11_Rendering ==
  (last.op = "Error" /\ ~IsForeign(last.args[1])) =>
    LET e      == Deref(Memory, last.args[1])
        causes == Elems(Memory, e.Causes)
    IN last.ret =
         IF Len(causes) = 0 THEN HeadOf(e)
         ELSE HeadOf(e) \o <<"\nCaused by:">>
                \o Flat([i \in 1..Len(causes) |->
                           <<"\n\t">> \o ErrorOf(Memory, causes[i])])

C11_Witness ==
  /\ last.op = "Error"
  /\ IsError(last.args[1])
  /\ last.args[1].Causes.len = 2
  /\ last.ret = <<"Argument ", "", " is missing", "\nCaused by:", "\n\t", "boom",
                  "\n\t", "", " ", "%!s(<nil>)", " Not Found">>

\* the errors reachable from x through the causes of the Errors and the Err
\* field of the foreign errors
Kids(mem, x) ==
  IF IsForeign(x) THEN {x.inner} \ {Nil}
  ELSE {Elems(mem, Deref(mem, x).Causes)[i] :
          i \in 1..Deref(mem, x).Causes.len} \ {Nil}

RECURSIVE Reach(_, _, _)
Reach(mem, x, fuel) ==
  IF fuel = 0 THEN {}
  ELSE {x} \cup UNION {Reach(mem, c, fuel - 1) : c \in Kids(mem, x)}

\* the cause chain of x contains only Error links, and every Value in it is
\* one that json.Marshal encodes
OnlyErrors(x) == \A y \in Reach(Memory, x, MaxWalk) : ~IsForeign(y)
ValuesEncodable(x) ==
  \A y \in Reach(Memory, x, MaxWalk) : Encodable(Deref(Memory, y).Value)

\* every number in the chain of x is one a float64 holds exactly
ValuesExact(x) ==
  \A y \in Reach(Memory, x, MaxWalk) :
    LET value == Deref(Memory, y).Value
    IN Len(value) = 2 => Float64(value[1]) = value[1]

\* data decodes without error and the Error decoded encodes as data again
RoundTrip(data) ==
  LET d == Decode(Memory, data, Site.UnmarshalJSON)
  IN /\ d.err = Nil
     /\ ~Encode(d.mem, d.e, MaxWalk).panic
     /\ Encode(d.mem, d.e, MaxWalk).depth = 0
     /\ Encode(d.mem, d.e, MaxWalk).data = data

\* the last call was MarshalJSON on an Error of the round-trip property
Marshalled ==
  /\ last.op = "MarshalJSON"
  /\ OnlyErrors(last.recv)
  /\ ValuesEncodable(last.recv)

\* C12: for every Error whose Value is JSON-encodable and whose cause chain
\* contains only Error links, MarshalJSON succeeds and decoding its output
\* and encoding the result again gives the same document, member for member.
C12_RoundTrip ==
  Marshalled => last.ok /\ RoundTrip(last.ret.data)

\* C12, for the Errors whose numbers a float64 holds exactly: the round trip
\* gives the same document.
C12_RoundTripOfExactValues ==
  Marshalled /\ ValuesExact(last.recv) => last.ok /\ RoundTrip(last.ret.data)

\* an Error with a string Value and a cause that has a Value too was encoded
C12_Witness ==
  /\ Marshalled
  /\ ValuesExact(last.recv)
  /\ last.recv.Value = Box("v")
  /\ last.recv.Causes.len = 1
  /\ Has(last.ret.data, "cause")
  /\ Has(Get(last.ret.data, "cause"), "value")
  /\ RoundTrip(last.ret.data)

\* the payload is an object whose "type" is absent or is not "error"
OtherType(payload) ==
  /\ payload.j = "object"
  /\ \/ ~Has(payload, "type")
     \/ Get(payload, "type").j # "string"
     \/ Get(payload, "type").v[1] # Pieces("error")

\* the nested "cause" of the payload, if any, decodes without error
CauseDecodes(payload) ==
  Has(payload, "cause") =>
    Decode(Memory, Get(payload, "cause"), Site.UnmarshalJSON).err = Nil

\* the last call was UnmarshalJSON on a payload of another type
DecodedOtherType == last.op = "UnmarshalJSON" /\ OtherType(last.args[1])

Extracted(err) ==
  LET c == Clone(Memory, InvalidType)
      r == As(c.mem, err, Target("*Error", c.ret))
  IN [ok |-> r.ok, details |-> Deref(r.mem, r.val)]

\* the last call was UnmarshalJSON on an object of type "blob" whose other
\* members decode
DecodedBlob ==
  /\ DecodedOtherType
  /\ Has(last.args[1], "type")
  /\ Get(last.args[1], "type").j = "string"
  /\ Get(last.args[1], "type").v[1] = Pieces("blob")
  /\ FirstWrong(last.args[1]) = 0
  /\ CauseDecodes(last.args[1])

\* C14: decoding a payload of type "blob" fails with an error that matches
\* JSONUnmarshalError and from whose chain the InvalidType link is extracted
\* with What = "type" and Value = "blob".
C14_WhatIsType ==
  DecodedBlob =>
    /\ last.ret # Nil
    /\ Is(Memory, last.ret, JSONUnmarshalError)
    /\ Extracted(last.ret).ok
    /\ Extracted(last.ret).details.What = "type"
    /\ Extracted(last.ret).details.Value = Box("blob")

\* C14, amended: the InvalidType link extracted has What = "error", the type
\* expected, and Value = "blob", the type found.
C14_WhatIsExpectedType ==
  DecodedBlob =>
    /\ last.ret # Nil
    /\ Is(Memory, last.ret, JSONUnmarshalError)
    /\ Extracted(last.ret).ok
    /\ Extracted(last.ret).details.ID = InvalidType.ID
    /\ Extracted(last.ret).details.What = "error"
    /\ Extracted(last.ret).details.Value = Box("blob")

\* a payload of type "blob" with an "id" was decoded and the InvalidType link
\* extracted from the error
C14_Witness ==
  /\ DecodedBlob
  /\ Has(last.args[1], "id")
  /\ last.ret # Nil
  /\ Extracted(last.ret).ok
  /\ Extracted(last.ret).details.What = "error"

\* the causes MarshalJSON encodes: the non-nil ones
Encoded_Causes(e) == SelectSeq(Elems(Memory, e.Causes), NotNil)

\* the cause holds an Error somewhere in its chain
HoldsError(c) == Is(Memory, c, ZeroError)

\* some cause of e holds no Error and is not of a pointer type
HasValueTypedCause(e) ==
  \E i \in 1..Len(Encoded_Causes(e)) :
    /\ ~HoldsError(Encoded_Causes(e)[i])
    /\ Encoded_Causes(e)[i].type \notin PointerTypes

\* the document of a foreign cause: code 500, id "error.runtime" with the
\* name of its type unless it is an errors.New value, and its message
ForeignDoc(c) ==
  JObject(("type" :> JString(Pieces("error")))
          @@ ("code" :> JNumber("500"))
          @@ ("id" :> JString(<<"error", "runtime">> \o ElemName(c.type)))
          @@ ("text" :> JString(c.msg)))

\* the document of a cause as the claim has it, and as the code has it: a
\* foreign cause that holds an Error is encoded with its own fields
ClaimedCauseDoc(c) ==
  IF IsForeign(c) THEN ForeignDoc(c) ELSE Encode(Memory, c, MaxWalk).data

CauseDoc(c) ==
  IF IsForeign(c) /\ ~HoldsError(c) THEN ForeignDoc(c)
  ELSE Encode(Memory, c, MaxWalk).data

\* "type" and the scalar members of the document of e
Scalars(e, data) ==
  /\ Get(data, "type") = JString(Pieces("error"))
  /\ Has(data, "code") <=> e.Code # 0
  /\ Has(data, "code") => Get(data, "code") = JNumber(Itoa(e.Code))
  /\ Has(data, "id") <=> e.ID # <<>>
  /\ Has(data, "id") => Get(data, "id") = JString(e.ID)
  /\ Has(data, "text") <=> e.Text # <<>>
  /\ Has(data, "text") => Get(data, "text") = JString(e.Text)
  /\ Has(data, "what") <=> e.What # ""
  /\ Has(data, "what") => Get(data, "what") = JString(Pieces(e.What))
  /\ Has(data, "value") <=> e.Value # NilValue
  /\ Has(data, "value") => Get(data, "value") = EncodeValue(e.Value)

\* y is a *Error that is among its own causes, directly or not
Cyclic(y) ==
  IsPtr(y) /\ \E c \in Kids(Memory, y) : y \in Reach(Memory, c, MaxWalk)

\* every Value and every cause reachable from e is one MarshalJSON encodes,
\* and no Error is its own cause
AllEncodable(e) ==
  \A y \in Reach(Memory, e, MaxWalk) :
    IF IsForeign(y) THEN y.type \in PointerTypes
    ELSE Encodable(Deref(Memory, y).Value) /\ ~Cyclic(y)

C16_StackCapturedOnce ==
  /\ last.op \in {"WithStack", "With", "Wrap"}
  /\ last.recv.Stack # NoStack
  /\ last.ret # Nil
  => last.ret.Stack = last.recv.Stack

\* the causes of the receiver of the last call, before and after the call
CausesBefore == Elems(Memory, last.recv.Causes)
CausesAfter == Elems(Memory, ValueAt(last.loc).Causes)

C17_BuildersKeepReceiver ==
  last.op \in {"With", "Wrap", "WithStack", "WithoutStack", "Clone"} =>
    ValueAt(last.loc) = last.recv

OnlyNilCauses ==
  /\ last.recv.ID = <<>>
  /\ last.recv.Text = <<>>
  /\ \A i \in 1..Len(CausesBefore) : CausesBefore[i] = Nil

\* C18: starting from an Error without ID, Text and causes, after any
\* sequence of WithCause calls whose arguments are all nil, HasCauses() is
\* false and AsError() is nil.
C18_NilCausesIgnored ==
  /\ last.op = "HasCauses" /\ OnlyNilCauses => ~last.ok
  /\ last.op = "AsError" /\ OnlyNilCauses => last.ret = Nil

\* a goroutine wrote a cell that another goroutine read or wrote
Race ==
  \E c, d \in Callers :
    /\ c # d
    /\ callers[c].writes \cap (callers[d].reads \cup callers[d].writes) # {}

\* what an error holds: its fields and the causes its slice gives
Content(mem, x) ==
  IF x = Nil THEN <<Nil, <<>>>>
  ELSE <<[x EXCEPT !.Causes = NilSlice], Elems(mem, x.Causes)>>

\* what the call of the goroutine c returns when nothing else runs
Alone(c) ==
  LET r == Apply(callers[c].op, EmptyMem, SentinelInit[callers[c].n])
  IN Content(r.mem, r.ret)

\* C19: under every interleaving of With, Wrap and WithStack calls made by
\* concurrent goroutines on the sentinels, no call writes a memory cell that
\* another call reads or writes, each call returns what it returns when run
\* alone, and the sentinels are unchanged.
C19_SentinelsShared ==
  /\ ~Race
  /\ sentinel = SentinelInit
  /\ \A c \in Callers :
       callers[c].pc = "returned" => Content(Memory, callers[c].ret) = Alone(c)

\* two goroutines have wrapped an error in the same sentinel, each while
\* the other was between its call and its return
C19_Witness ==
  /\ \A c \in Callers :
       /\ callers[c].pc = "returned"
       /\ callers[c].n = "NotFound"
       /\ callers[c].op.name = "Wrap"
       /\ callers[c].ret # Nil
  /\ \A c, d \in Callers : c # d => callers[c].ret.Causes.arr # callers[d].ret.Causes.arr


(***************************************************************************)
(* C20                                                                     *)
(***************************************************************************)
\* the client has collapsed a collector, which holds the errors Held
Collapsed == last.op = "MultiError.AsError"
Held == IF last.recv = NilMulti THEN <<>> ELSE objs[last.recv.addr].Errors

\* r is the error x with a stack: x itself when x has no field for a stack
StackEnsured(r, x) ==
  IF IsForeign(x) THEN IsForeign(r) /\ r = x
  ELSE /\ ~IsForeign(r)
       /\ [Deref(Memory, r) EXCEPT !.Stack = NoStack]
            = [Deref(Memory, x) EXCEPT !.Stack = NoStack]
       /\ Len(Deref(Memory, r).Stack) > 0

\* r is an Error{Code: 500, ID: "error.runtime"} with a stack, whose only
\* cause is x
WrapsInRuntime(r, x) ==
  /\ IsError(r)
  /\ [r EXCEPT !.Causes = NilSlice, !.Stack = NoStack] = RuntimeErrorOf(<<>>)
  /\ r.Causes.len = 1
  /\ IsForeign(Elems(Memory, r.Causes)[1])
  /\ Elems(Memory, r.Causes)[1] = x
  /\ Len(r.Stack) > 0

RECURSIVE NonNil(_)
NonNil(errs) ==
  IF Len(errs) = 0 THEN <<>>
  ELSE IF Head(errs) = Nil THEN NonNil(Tail(errs))
  ELSE <<Head(errs)>> \o NonNil(Tail(errs))

\* the Errors of the collector at address a, before and after a step; a
\* collector that is not made yet holds nothing
ErrorsOf(os, a) == IF a <= Len(os) THEN os[a].Errors ELSE <<>>
CollectorsAfter == {a \in 1..Len(objs') : objs'[a].kind = "MultiError"}

\* C21: a collector starts empty; an Append leaves it with the errors it held
\* followed by the non-nil arguments of the call, in order; no other step
\* changes what it holds; it never holds nil.
C21_AppendKeepsOrder ==
  /\ [][\A a \in CollectorsAfter :
          IF last'.op = "MultiError.Append" /\ last'.recv = MultiPtr(a)
          THEN ErrorsOf(objs', a) = ErrorsOf(objs, a) \o NonNil(last'.args)
          ELSE ErrorsOf(objs', a) = ErrorsOf(objs, a)]_vars
  /\ [](\A a \in Collectors : \A i \in 1..Len(objs[a].Errors) :
          objs[a].Errors[i] # Nil)

\* an Append that was given nil and errors, on a collector that held one
C21_Witness ==
  /\ last.op = "MultiError.Append"
  /\ Len(last.args) = 2
  /\ last.args[1] = Nil
  /\ last.args[2] # Nil
  /\ Len(objs[last.recv.addr].Errors) = 2


(***************************************************************************)
(* C22                                                                     *)
(***************************************************************************)
\* the client has made an error from the status code Given
FromStatus == last.op = "FromHTTPStatusCode"
Given == last.args[1]

\* the HTTP sentinels declared with the code c
DeclaredFor(c) == {name \in HTTPNames : Declared(name).Code = c}

\* C22: FromHTTPStatusCode(c) is a non-nil Error with Code c and a stack; it
\* matches the HTTP sentinel declared with the code c when the switch lists
\* c, and its ID is "error.http.<c>" otherwise.
C22_FromHTTPStatusCode ==
  FromStatus =>
    /\ last.ret # Nil
    /\ IsError(last.ret)
    /\ last.ret.Code = Given
    /\ Len(last.ret.Stack) > 0
    /\ IF Given \in ListedCodes
       THEN /\ DeclaredFor(Given) # {}
            /\ \A name \in DeclaredFor(Given) :
                 Is(Memory, last.ret, Declared(name))
       ELSE last.ret.ID = <<"error", "http", ToString(Given)>>

\* FromHTTPStatusCode(404) was called and gave an error that matches
\* HTTPNotFound
C22_Witness ==
  /\ FromStatus
  /\ Given = 404
  /\ last.ret.ID = <<"error", "http", "notfound">>
  /\ Is(Memory, last.ret, Declared("HTTPNotFound"))


(***************************************************************************)
(* C23                                                                     *)
(***************************************************************************)
\* a string as its pieces that are not empty
NoEmpty(str) == SelectSeq(str, LAMBDA piece : piece # "")

\* C23 as stated: the message of New(m) is m, and the message of
\* Errorf(format, args...) is fmt.Sprintf(format, args...).
C23_MessageFidelity ==
  /\ last.op = "New" =>
       NoEmpty(ErrorOf(Memory, last.ret)) = NoEmpty(last.args[1])
  /\ last.op = "Errorf" =>
       NoEmpty(ErrorOf(Memory, last.ret))
         = NoEmpty(Sprintf(last.args[1], last.args[2]))

\* the same for the messages that are not empty and hold no verb
C23_PlainMessageFidelity ==
  /\ (last.op = "New" /\ Len(last.args[1]) > 0 /\ CountVerbs(last.args[1]) = 0) =>
       NoEmpty(ErrorOf(Memory, last.ret)) = NoEmpty(last.args[1])
  /\ (last.op = "Errorf" /\ CountVerbs(Sprintf(last.args[1], last.args[2])) = 0) =>
       NoEmpty(ErrorOf(Memory, last.ret))
         = NoEmpty(Sprintf(last.args[1], last.args[2]))


(***************************************************************************)
(* C24                                                                     *)
(***************************************************************************)
\* the causes of the error x in the memory as, os
CausesIn(as, os, x) ==
  LET e == IF IsPtr(x) THEN os[x.addr] ELSE x
  IN IF e.Causes.len = 0 THEN <<>> ELSE SubSeq(as[e.Causes.arr], 1, e.Causes.len)

\* the step is a call of Wrap with a non-nil error
Wraps == last'.op = "Wrap" /\ last'.ret # Nil

\* C24 as stated: r := e.Wrap(err) has the causes of e followed by err, and
\* the call changes the causes of no error derived before.
C24_DerivedNotAliased ==
  [][Wraps =>
       /\ CausesIn(arrs', objs', last'.ret)
            = CausesIn(arrs, objs, last'.recv) \o <<last'.args[1]>>
       /\ \A i \in 1..Len(pool) : ~IsForeign(pool[i]) =>
            CausesIn(arrs', objs', pool[i]) = CausesIn(arrs, objs, pool[i])]_vars

\* the same for a receiver whose Causes have no spare capacity
C24_DerivedNotAliasedWhenFull ==
  [][(Wraps /\ last'.recv.Causes.len = last'.recv.Causes.cap) =>
       /\ CausesIn(arrs', objs', last'.ret)
            = CausesIn(arrs, objs, last'.recv) \o <<last'.args[1]>>
       /\ \A i \in 1..Len(pool) : ~IsForeign(pool[i]) =>
            CausesIn(arrs', objs', pool[i]) = CausesIn(arrs, objs, pool[i])]_vars


(***************************************************************************)
(* C25                                                                     *)
(***************************************************************************)
\* C25 as stated: no error the client holds is among its own causes, so the
\* walks of Is, As, Unwrap and Error come to an end.
C25_ChainsAcyclic == \A i \in 1..Len(pool) : ~Cyclic(pool[i])

\* the same for the errors that are not pointers: an Error value is never
\* among its own causes
C25_ValuesAcyclic ==
  \A i \in 1..Len(pool) :
    IsError(pool[i]) => pool[i] \notin UNION {Reach(Memory, c, MaxWalk) :
                                               c \in Kids(Memory, pool[i])}


(***************************************************************************)
(* C26                                                                     *)
(***************************************************************************)
\* the client has composed the errors Composed, none of them nil
ComposedAll ==
  /\ last.op = "WrapErrors"
  /\ \A i \in 1..Len(last.args) : last.args[i] # Nil
Composed == last.args

\* no Error among the errors that are followed by another has a cause
NoCauseYet ==
  \A j \in 1..(Len(Composed) - 1) :
    IsError(Composed[j]) => Composed[j].Causes.len = 0

\* the error at i is not an Error value and is in the chain of no other
\* error composed
OnlyAt(i) ==
  /\ ~IsError(Composed[i])
  /\ \A k \in 1..Len(Composed) :
       k # i => Composed[i] \notin Reach(Memory, Composed[k], MaxWalk)

\* C26 as stated: every error composed matches the composition.
C26_EveryArgumentMatches ==
  ComposedAll =>
    \A i \in 1..Len(Composed) : Is(Memory, last.ret, Composed[i])

\* C26: when no Error that is followed by another has a cause of its own, the
\* composition matches every Error value composed and the last error,
\* whatever its type; an error that is not an Error value and is followed by
\* another is replaced by a runtime Error and does not match.
C26_ErrorsAndLastMatch ==
  ComposedAll =>
    /\ NoCauseYet =>
         \A i \in 1..Len(Composed) :
           (IsError(Composed[i]) \/ i = Len(Composed)) =>
             Is(Memory, last.ret, Composed[i])
    /\ \A i \in 1..(Len(Composed) - 1) :
         OnlyAt(i) => ~Is(Memory, last.ret, Composed[i])

\* a foreign error followed by an Error was composed: the Error matches,
\* the foreign error does not
C26_Witness ==
  /\ ComposedAll
  /\ Len(Composed) = 2
  /\ Composed[1] = Boom
  /\ IsError(Composed[2])
  /\ Is(Memory, last.ret, Composed[2])
  /\ ~Is(Memory, last.ret, Composed[1])


(***************************************************************************)
(* C27                                                                     *)
(***************************************************************************)
\* the client has matched an error made from a status code the switch lists
\* against the HTTP sentinel declared for another code
MatchedOther ==
  /\ last.op = "Is"
  /\ IsError(last.args[1])
  /\ last.args[1].Stack = <<Site.FromHTTPStatusCode>>
  /\ last.args[1].Code \in ListedCodes
  /\ last.args[2].Code # last.args[1].Code

\* C27 as stated: the error made from a status code does not match the
\* sentinel declared for another status code.
C27_DistinctCodesDoNotMatch == MatchedOther => ~last.ok

\* the same for the pairs of sentinels whose IDs differ
C27_DistinctIDsDoNotMatch ==
  (MatchedOther /\ last.args[1].ID # last.args[2].ID) => ~last.ok


(***************************************************************************)
(* C30                                                                     *)
(***************************************************************************)
\* the client has made an error from a sentinel with a what and a value
WithBoth == last.op = "Sentinel.With" /\ Len(last.args[2]) = 1

\* what fmt prints for a verb that has no operand
Unfilled == {"%!s(MISSING)", "%!v(MISSING)"}

\* the message holds no mark of a verb without operand
EverySlotFilled(str) == \A i \in 1..Len(str) : str[i] \notin Unfilled

\* C30 as stated: the Text of a sentinel has at most two verbs, and the
\* message of S.With(what, value) has every verb filled.
C30_AtMostTwoSlots ==
  WithBoth =>
    /\ CountVerbs(last.recv.Text) <= 2
    /\ EverySlotFilled(ErrorOf(Memory, last.ret))

\* the same for the sentinels whose Text has at most two verbs
C30_TwoSlotsFilled ==
  (WithBoth /\ CountVerbs(last.recv.Text) <= 2) =>
    EverySlotFilled(ErrorOf(Memory, last.ret))


(***************************************************************************)
(* C28                                                                     *)
(***************************************************************************)
\* the client has encoded an Error whose Value json.Marshal encodes and
\* whose causes are foreign errors, none nil and none holding an Error
EncodedForeign ==
  /\ last.op = "MarshalJSON"
  /\ Encodable(last.recv.Value)
  /\ last.recv.Causes.len > 0
  /\ \A i \in 1..last.recv.Causes.len :
       LET c == Elems(Memory, last.recv.Causes)[i]
       IN c # Nil /\ IsForeign(c) /\ ~HoldsError(c)

\* C28 as stated: MarshalJSON of such an Error gives the data and a nil
\* error, and does not panic, whatever the types of the causes.
C28_EncodeTotal == EncodedForeign => (~last.ret.panic /\ last.ret.err = Nil)

\* the same for the causes whose type is a pointer type
C28_EncodeTotalForPointers ==
  (EncodedForeign /\ \A i \in 1..last.recv.Causes.len :
      Elems(Memory, last.recv.Causes)[i].type \in PointerTypes)
    => (~last.ret.panic /\ last.ret.err = Nil)


(***************************************************************************)
(* C29                                                                     *)
(***************************************************************************)
\* the step is a call of UnmarshalJSON that returns an error
FailsToDecode == last'.op = "UnmarshalJSON" /\ last'.ret # Nil

\* C29: a call of UnmarshalJSON that returns an error leaves every field of
\* its receiver, and the causes it holds, as they were.
C29_FailedDecodeKeepsReceiver ==
  [][FailsToDecode =>
       /\ objs'[pool[last'.loc.i].addr] = objs[pool[last'.loc.i].addr]
       /\ objs'[pool[last'.loc.i].addr] = last'.recv
       /\ CausesIn(arrs', objs', pool[last'.loc.i])
            = CausesIn(arrs, objs, pool[last'.loc.i])]_vars

\* a decoding failed on a receiver that held an ID and a cause
C29_Witness ==
  /\ last.op = "UnmarshalJSON"
  /\ last.ret # Nil
  /\ Len(last.recv.ID) > 0
  /\ last.recv.Causes.len > 0
  /\ ValueAt(last.loc) = last.recv

====
